---- MODULE Spec2Model ----
(***************************************************************************)
(* A model of gcp-finops-sentinel: the rule engine (src/src/rule_engine.py)*)
(* and label-based project discovery (src/src/project_discovery.py).       *)
(*                                                                         *)
(* Conventions.                                                            *)
(*  - A Python str is a sequence of one-character strings, so that pattern *)
(*    translation and regex matching are computed character by character.  *)
(*  - A Python dict with optional keys is a record with a has_<key> flag   *)
(*    per optional key; a label map is a function whose DOMAIN is the set  *)
(*    of keys it holds.                                                    *)
(*  - Percentages are integers in hundredths of a percent (89.99 is 8999): *)
(*    every number the rules and the rounded threshold use has at most two *)
(*    decimals, and Python compares such floats as the decimals compare.   *)
(***************************************************************************)
EXTENDS Integers, Sequences, FiniteSets, TLC

VARIABLES
    pc,                 \* position of the operation under way
    \* ProjectDiscovery.find_projects_by_labels
    dry_run,            \* self.dry_run
    label_filters,      \* argument: label key -> required value
    organization_id,    \* argument: "" stands for None
    query,              \* the query handed to search_projects
    projects,           \* what search_projects returned
    project_data,       \* the value returned
    \* RuleEngine._matches_pattern
    pattern,            \* argument
    text,               \* argument
    pattern_result,     \* the value returned
    \* RuleEngine.evaluate
    rules,              \* self.rules
    budget_data,        \* argument: the message body
    attributes,         \* argument: the message attributes
    threshold_percent,  \* local, in hundredths of a percent
    billing_account_id, \* local
    budget_id,          \* local
    rule_idx,           \* position of the loop over self.rules
    matches,            \* what each _matches_rule call returned, in call order
    actions,            \* local: the list returned
    \* calls under way
    stack,              \* the callers waiting for the operation under way, innermost first
    \* handler._resolve_action_targets
    action,             \* argument: the action dict
    targets,            \* local: the list returned
    discoveries,        \* how each find_projects_by_labels call ended, in call order
    \* BudgetResponseEngine (dry_run above is self.dry_run as well)
    event_topic,        \* self.event_topic: "" stands for None
    call,               \* the arguments of the apply_* method called
    policy,             \* local: the Policy built
    policies,           \* the policies the Org Policy service holds
    interfered,         \* whether another actor changed the policy during the call
    client_calls,       \* the calls made on self.org_policy_client, with their outcomes
    exc,                \* the exception upsert_policy raised, if any
    success,            \* local
    error_message,      \* local
    event,              \* the arguments of publish_action_event
    publish_calls,      \* the events handed to self.publisher.publish
    published,          \* the events the topic received
    returned,           \* the value returned, in call order
    \* config.load_rules_config
    environ,            \* os.environ: RULES_CONFIG and RULES_CONFIG_PATH
    config_file,        \* the file at the configured path
    rules_config,       \* the value returned
    \* handler.budget_response_handler
    message,            \* the Pub/Sub message of the cloud event
    email_service,      \* response_engine.email_service: "none" without SMTP settings
    action_idx,         \* position of the loop over actions
    target_idx,         \* position of the loop over targets
    executed_actions,   \* local: the records of the executions so far
    mail,               \* the arguments of the send_email call under way
    emails,             \* the mails handed to the email service
    \* callers that share one RuleEngine
    initial_rules,      \* self.rules as __init__ set it
    suspended,          \* the locals of the evaluate call that is not running
    results,            \* the arguments and the value of each call that returned
    held                \* the dict objects of each returned list, as its caller holds them

discovery_vars == <<dry_run, label_filters, organization_id, query, projects, project_data>>
pattern_vars == <<pattern, text, pattern_result>>
engine_vars == <<rules, budget_data, attributes, threshold_percent, billing_account_id,
                 budget_id, rule_idx, matches, actions>>
resolve_vars == <<action, targets, discoveries>>
\* What the rule engine and the discovery never touch.
policy_vars == <<event_topic, call, policy, policies, interfered, client_calls, exc, success,
                 error_message, event, publish_calls, published, returned>>
config_vars == <<environ, config_file, rules_config>>
handler_vars == <<message, email_service, action_idx, target_idx, executed_actions, mail, emails>>
reuse_vars == <<initial_rules, suspended, results, held>>
ext_vars == <<stack, resolve_vars, policy_vars, config_vars, handler_vars, reuse_vars>>
vars == <<pc, discovery_vars, pattern_vars, engine_vars, ext_vars>>

(***************************************************************************)
(* Bounds of the model.                                                    *)
(***************************************************************************)
MaxProjects == 2        \* longest list search_projects returns
MaxPatLen == 3          \* longest pattern
MaxTextLen == 3         \* longest text matched against a pattern
MaxConds == 2           \* longest list of threshold conditions
MaxActions == 3         \* longest list of actions of a rule
MaxRules == 2           \* longest rule set

\* All sequences over S of length at most n.
SeqsUpTo(S, n) == UNION {[1..k -> S] : k \in 0..n}

(***************************************************************************)
(* ProjectDiscovery.find_projects_by_labels                                *)
(***************************************************************************)
LabelKeys == {"env", "team"}
LabelValues == {"prod", "backend"}

\* Every label map over the modelled keys and values (the empty map included).
LabelMaps == UNION {[S -> LabelValues] : S \in SUBSET LabelKeys}

\* The projects search_projects may return: a project carries a label map (or
\* no labels attribute at all) and may or may not carry a display name.
ProjectKinds ==
    [has_labels : {TRUE}, labels : LabelMaps, has_display_name : BOOLEAN]
    \cup [has_labels : {FALSE}, labels : {<<>>}, has_display_name : BOOLEAN]

\* The i-th project returned: its resource name is "projects/<id>".
MakeProject(kind, i) ==
    [name |-> <<"projects", <<"p", i>>>>,
     has_labels |-> kind.has_labels,
     labels |-> kind.labels,
     has_display_name |-> kind.has_display_name,
     display_name |-> IF kind.has_display_name THEN <<"Project", i>> ELSE <<>>]

SearchResults ==
    {[i \in 1..Len(ks) |-> MakeProject(ks[i], i)] : ks \in SeqsUpTo(ProjectKinds, MaxProjects)}

\* dict.get(key): the value, or None when the key is missing. None is rendered
\* as a record that no label value equals.
DictGet(d, key) ==
    IF key \in DOMAIN d THEN [none |-> FALSE, v |-> d[key]] ELSE [none |-> TRUE, v |-> ""]

\* A wrong variant: any() in place of all().
AnyLabelMatches(project_labels, filters) ==
    \E key \in DOMAIN filters :
        DictGet(project_labels, key) = [none |-> FALSE, v |-> filters[key]]

\* all(project_labels.get(key) == value for key, value in label_filters.items())
AllLabelsMatch(project_labels, filters) ==
    \A key \in DOMAIN filters :
        DictGet(project_labels, key) = [none |-> FALSE, v |-> filters[key]]

\* project.name.split("/")[-1]
ProjectId(name) == name[Len(name)]

\* The post-filter loop over the projects returned, in their order.
RECURSIVE FilterProjects(_, _)
FilterProjects(ps, filters) ==
    IF ps = <<>> THEN <<>>
    ELSE LET project == Head(ps)
             rest == FilterProjects(Tail(ps), filters)
         IN IF project.has_labels
            THEN LET project_labels == project.labels
                 IN IF AllLabelsMatch(project_labels, filters)
                    THEN LET project_id == ProjectId(project.name)
                             display_name ==
                                 IF project.has_display_name
                                 THEN project.display_name ELSE project_id
                         IN <<[project_id |-> project_id,
                               display_name |-> display_name]>> \o rest
                    ELSE rest
            ELSE rest

\* The query string, as the list of its space-separated terms.
BuildQuery(filters, org) ==
    LET label_queries == {<<"labels", key, filters[key]>> : key \in DOMAIN filters}
        query_parts == {<<"state", "ACTIVE">>}
        with_org == IF org # "" THEN query_parts \cup {<<"parent", "organizations", org>>}
                    ELSE query_parts
    IN IF label_queries # {} THEN with_org \cup label_queries ELSE with_org

\* The mock projects of dry-run mode: one per requested label.
MockProjects(filters) ==
    {[project_id |-> <<"mock-project", key, filters[key]>>,
      display_name |-> <<"Mock Project", key, filters[key]>>] : key \in DOMAIN filters}

DiscoveryIdle ==
    /\ dry_run = FALSE
    /\ label_filters = <<>>
    /\ organization_id = ""
    /\ query = {}
    /\ projects = <<>>
    /\ project_data = <<>>

PatternIdle ==
    /\ pattern = <<>>
    /\ text = <<>>
    /\ pattern_result = FALSE

EngineIdle ==
    /\ rules = <<>>
    /\ budget_data = <<>>
    /\ attributes = <<>>
    /\ threshold_percent = 0
    /\ billing_account_id = <<>>
    /\ budget_id = <<>>
    /\ rule_idx = 1
    /\ matches = <<>>
    /\ actions = <<>>

ResolveIdle ==
    /\ action = <<>>
    /\ targets = <<>>
    /\ discoveries = <<>>

\* No exception; no error message (None).
NoError == [none |-> TRUE, msg |-> ""]
Error(msg) == [none |-> FALSE, msg |-> msg]

\* The locals of an apply_* call before its first statement, nothing sent yet.
PolicyLocalsIdle ==
    /\ policy = <<>>
    /\ interfered = FALSE
    /\ client_calls = <<>>
    /\ exc = NoError
    /\ success = FALSE
    /\ error_message = NoError
    /\ event = <<>>
    /\ publish_calls = <<>>
    /\ published = <<>>
    /\ returned = <<>>

PolicyIdle ==
    /\ event_topic = ""
    /\ call = <<>>
    /\ policies = {}
    /\ PolicyLocalsIdle

ConfigIdle ==
    /\ environ = <<>>
    /\ config_file = <<>>
    /\ rules_config = <<>>

\* The handler's locals before its loop.
HandlerLocalsIdle ==
    /\ action_idx = 1
    /\ target_idx = 1
    /\ executed_actions = <<>>
    /\ mail = <<>>
    /\ emails = <<>>

HandlerIdle ==
    /\ message = <<>>
    /\ email_service = "none"
    /\ HandlerLocalsIdle

\* One caller, one call: nothing is shared.
ReuseIdle ==
    /\ initial_rules = <<>>
    /\ suspended = <<>>
    /\ results = <<>>
    /\ held = <<>>

\* No caller is waiting and nothing outside the operation is under way.
ExtIdle ==
    /\ stack = <<>>
    /\ ResolveIdle
    /\ PolicyIdle
    /\ ConfigIdle
    /\ HandlerIdle
    /\ ReuseIdle

InitDiscovery ==
    /\ pc = "find_projects"
    /\ dry_run \in BOOLEAN
    /\ label_filters \in LabelMaps
    /\ organization_id \in {"", "org1"}
    /\ query = {}
    /\ projects = <<>>
    /\ project_data = <<>>
    /\ PatternIdle
    /\ EngineIdle
    /\ ExtIdle

\* Dry run: no search; the mock projects are returned (a set here: their order
\* is the dict's insertion order, which the modelled label map does not keep).
FindMockProjects ==
    /\ pc = "find_projects"
    /\ dry_run
    /\ project_data' \in {s \in SeqsUpTo(MockProjects(label_filters), Cardinality(DOMAIN label_filters)) :
                            /\ Len(s) = Cardinality(DOMAIN label_filters)
                            /\ \A i, j \in 1..Len(s) : i # j => s[i] # s[j]}
    /\ pc' = "done"
    /\ UNCHANGED <<dry_run, label_filters, organization_id, query, projects, pattern_vars, engine_vars, ext_vars>>

\* The search succeeds: the API answers with any list of projects, among them
\* projects that match only some of the requested labels.
SearchProjects ==
    /\ pc = "find_projects"
    /\ ~dry_run
    /\ query' = BuildQuery(label_filters, organization_id)
    /\ projects' \in SearchResults
    /\ pc' = "filter"
    /\ UNCHANGED <<dry_run, label_filters, organization_id, project_data, pattern_vars, engine_vars, ext_vars>>

\* The search raises: the except branch returns [].
SearchRaises ==
    /\ pc = "find_projects"
    /\ ~dry_run
    /\ query' = BuildQuery(label_filters, organization_id)
    /\ project_data' = <<>>
    /\ pc' = "failed"
    /\ UNCHANGED <<dry_run, label_filters, organization_id, projects, pattern_vars, engine_vars, ext_vars>>

\* The post-filter and the return.
ReturnProjectData ==
    /\ pc = "filter"
    /\ project_data' = FilterProjects(projects, label_filters)
    /\ pc' = "done"
    /\ UNCHANGED <<dry_run, label_filters, organization_id, query, projects, pattern_vars, engine_vars, ext_vars>>

NextDiscovery ==
    \/ FindMockProjects
    \/ SearchProjects
    \/ SearchRaises
    \/ ReturnProjectData

SpecDiscovery == InitDiscovery /\ [][NextDiscovery]_vars

\* The positions of the returned projects that carry every requested label.
MatchingPositions ==
    {i \in 1..Len(projects) :
        /\ projects[i].has_labels
        /\ \A k \in DOMAIN label_filters :
              k \in DOMAIN projects[i].labels /\ projects[i].labels[k] = label_filters[k]}

\* The j-th smallest matching position.
NthMatching(j) ==
    CHOOSE i \in MatchingPositions : Cardinality({k \in MatchingPositions : k <= i}) = j

\* C1: after a search, find_projects_by_labels returns exactly the returned
\* projects that carry every requested label with the requested value, in the
\* order of the search.
C1_ExactIntersection ==
    (pc = "done" /\ ~dry_run) =>
        /\ Len(project_data) = Cardinality(MatchingPositions)
        /\ \A j \in 1..Len(project_data) :
              project_data[j].project_id = ProjectId(projects[NthMatching(j)].name)

\* The spec's example: {env:prod, team:backend} is requested, a project labelled
\* only {env:prod} was returned by the search and is not in the result, while a
\* fully labelled one is.
C1_Witness ==
    /\ pc = "done" /\ ~dry_run
    /\ label_filters = [k \in {"env", "team"} |-> IF k = "env" THEN "prod" ELSE "backend"]
    /\ Len(projects) = 2
    /\ projects[1].has_labels /\ projects[1].labels = [k \in {"env"} |-> "prod"]
    /\ projects[2].has_labels /\ projects[2].labels = label_filters
    /\ Len(project_data) = 1
    /\ project_data[1].project_id = <<"p", 2>>

(***************************************************************************)
(* RuleEngine._matches_pattern                                             *)
(***************************************************************************)
NL == "\n"
PatternChars == {"d", "-", ".", "*"}
TextChars == {"d", "-", "x", NL}

\* pattern.replace("*", ".*")
RECURSIVE ReplaceStar(_)
ReplaceStar(p) ==
    IF p = <<>> THEN <<>>
    ELSE IF Head(p) = "*" THEN <<".", "*">> \o ReplaceStar(Tail(p))
    ELSE <<Head(p)>> \o ReplaceStar(Tail(p))

\* re.match("^" + regex + "$", t) for the regexes ReplaceStar produces over
\* PatternChars: "." followed by "*" is any run of characters other than a
\* newline, a lone "." is any one character other than a newline, every other
\* character is itself, and "$" matches at the end or before a final newline.
RECURSIVE ReMatch(_, _)
ReMatch(regex, t) ==
    IF regex = <<>> THEN t = <<>> \/ t = <<NL>>
    ELSE IF Len(regex) >= 2 /\ regex[1] = "." /\ regex[2] = "*"
    THEN \E k \in 0..Len(t) :
            /\ \A m \in 1..k : t[m] # NL
            /\ ReMatch(SubSeq(regex, 3, Len(regex)), SubSeq(t, k + 1, Len(t)))
    ELSE IF regex[1] = "."
    THEN t # <<>> /\ t[1] # NL /\ ReMatch(Tail(regex), Tail(t))
    ELSE t # <<>> /\ t[1] = regex[1] /\ ReMatch(Tail(regex), Tail(t))

MatchesPattern(t, p) ==
    LET regex_pattern == ReplaceStar(p)
    IN ReMatch(regex_pattern, t)

InitPattern ==
    /\ pc = "matches_pattern"
    /\ pattern \in SeqsUpTo(PatternChars, MaxPatLen)
    /\ text \in SeqsUpTo(TextChars, MaxTextLen)
    /\ pattern_result = FALSE
    /\ DiscoveryIdle
    /\ EngineIdle
    /\ ExtIdle

MatchPattern ==
    /\ pc = "matches_pattern"
    /\ pattern_result' = MatchesPattern(text, pattern)
    /\ pc' = "done"
    /\ UNCHANGED <<pattern, text, discovery_vars, engine_vars, ext_vars>>

NextPattern == MatchPattern

SpecPattern == InitPattern /\ [][NextPattern]_vars

\* The matching the claim describes: "*" stands for any run of characters and
\* every other character of the pattern for itself, over the whole text.
RECURSIVE GlobMatch(_, _)
GlobMatch(p, t) ==
    IF p = <<>> THEN t = <<>>
    ELSE IF Head(p) = "*"
    THEN \E k \in 0..Len(t) : GlobMatch(Tail(p), SubSeq(t, k + 1, Len(t)))
    ELSE t # <<>> /\ Head(t) = Head(p) /\ GlobMatch(Tail(p), Tail(t))

\* C7: "*" is the only wildcard and the match is anchored to the whole text:
\* the result is the glob match, so a pattern without "*" matches a text iff
\* the text equals the pattern. Stated for texts of one line, the identifiers
\* the filters are given.
C7_StarOnlyWildcard ==
    (pc = "done" /\ \A i \in 1..Len(text) : text[i] # NL) =>
        /\ pattern_result = GlobMatch(pattern, text)
        /\ (\A i \in 1..Len(pattern) : pattern[i] # "*") => (pattern_result <=> text = pattern)

\* The part of C7 that the code keeps: over texts without a newline and patterns
\* without a regex metacharacter, the result is the glob match.
C7_PlainCharsGlob ==
    (/\ pc = "done"
     /\ \A i \in 1..Len(pattern) : pattern[i] # "."
     /\ \A i \in 1..Len(text) : text[i] # NL) =>
        pattern_result = GlobMatch(pattern, text)

(***************************************************************************)
(* RuleEngine: the rule and alert data                                     *)
(***************************************************************************)
\* The default of cond.get("value", 100), in hundredths of a percent.
DefaultValue == 10000

\* The default of attributes.get(..., "unknown").
Unknown == <<"u", "n", "k", "n", "o", "w", "n">>

\* {"operator": op, "value": v}, and the conditions that lack a key.
Cond(op, v) == [has_operator |-> TRUE, operator |-> op, has_value |-> TRUE, value |-> v]
CondNoOperator(v) == [has_operator |-> FALSE, operator |-> "", has_value |-> TRUE, value |-> v]
CondNoValue(op) == [has_operator |-> TRUE, operator |-> op, has_value |-> FALSE, value |-> 0]
CondEmpty == [has_operator |-> FALSE, operator |-> "", has_value |-> FALSE, value |-> 0]

\* conditions["threshold_percent"]: absent, one condition dict, or a list.
ThresholdAbsent == [kind |-> "absent", conds |-> <<>>]
ThresholdDict(c) == [kind |-> "dict", conds |-> <<c>>]
ThresholdList(cs) == [kind |-> "list", conds |-> cs]

\* conditions["billing_account_filter"] / ["budget_id_filter"]: absent, a str,
\* a list of str, or a dict that may hold "pattern".
FilterAbsent ==
    [kind |-> "absent", s |-> <<>>, items |-> <<>>, has_pattern |-> FALSE, pattern |-> <<>>]
FilterStr(x) ==
    [kind |-> "str", s |-> x, items |-> <<>>, has_pattern |-> FALSE, pattern |-> <<>>]
FilterList(xs) ==
    [kind |-> "list", s |-> <<>>, items |-> xs, has_pattern |-> FALSE, pattern |-> <<>>]
FilterPattern(p) ==
    [kind |-> "dict", s |-> <<>>, items |-> <<>>, has_pattern |-> TRUE, pattern |-> p]
FilterEmptyDict ==
    [kind |-> "dict", s |-> <<>>, items |-> <<>>, has_pattern |-> FALSE, pattern |-> <<>>]

Conditions(t, ba, bid) ==
    [threshold_percent |-> t, billing_account_filter |-> ba, budget_id_filter |-> bid]

\* rule.get("conditions", {}) of a rule without the key.
NoConditions == Conditions(ThresholdAbsent, FilterAbsent, FilterAbsent)

Rule(name, conds, acts) ==
    [name |-> name, has_conditions |-> TRUE, conditions |-> conds, actions |-> acts]
RuleWithoutConditions(name, acts) ==
    [name |-> name, has_conditions |-> FALSE, conditions |-> NoConditions, actions |-> acts]

\* An action dict: its type and the four targeting keys, each present or not.
Action(type, tp, tf, to, tl) ==
    [has_type |-> TRUE, type |-> type,
     has_target_projects |-> tp.has, target_projects |-> tp.v,
     has_target_folders |-> tf.has, target_folders |-> tf.v,
     has_target_organization |-> to.has, target_organization |-> to.v,
     has_target_labels |-> tl.has, target_labels |-> tl.v]
NoKey == [has |-> FALSE, v |-> <<>>]
Key(v) == [has |-> TRUE, v |-> v]

(***************************************************************************)
(* RuleEngine._matches_rule                                                *)
(***************************************************************************)
\* A wrong variant: "min" as an exclusive lower bound.
CondFailsExclusiveMin(cond, tp) ==
    LET operator == IF cond.has_operator THEN cond.operator ELSE ">="
        value == IF cond.has_value THEN cond.value ELSE DefaultValue
    IN IF operator = ">=" /\ tp < value THEN TRUE
       ELSE IF operator = ">" /\ tp <= value THEN TRUE
       ELSE IF operator = "==" /\ tp # value THEN TRUE
       ELSE IF operator = "<" /\ tp >= value THEN TRUE
       ELSE IF operator = "<=" /\ tp > value THEN TRUE
       ELSE IF operator = "min" /\ tp <= value THEN TRUE
       ELSE IF operator = "max" /\ tp > value THEN TRUE
       ELSE FALSE

\* A wrong variant: an operator the chain does not know rejects the alert.
CondFailsUnknownOperator(cond, tp) ==
    LET operator == IF cond.has_operator THEN cond.operator ELSE ">="
        value == IF cond.has_value THEN cond.value ELSE DefaultValue
    IN IF operator = ">=" THEN tp < value
       ELSE IF operator = ">" THEN tp <= value
       ELSE IF operator = "==" THEN tp # value
       ELSE IF operator = "<" THEN tp >= value
       ELSE IF operator = "<=" THEN tp > value
       ELSE IF operator = "min" THEN tp < value
       ELSE IF operator = "max" THEN tp > value
       ELSE TRUE

\* The if/elif chain of one condition: TRUE when it reaches a `return False`.
CondFails(cond, tp) ==
    LET operator == IF cond.has_operator THEN cond.operator ELSE ">="
        value == IF cond.has_value THEN cond.value ELSE DefaultValue
    IN IF operator = ">=" /\ tp < value THEN TRUE
       ELSE IF operator = ">" /\ tp <= value THEN TRUE
       ELSE IF operator = "==" /\ tp # value THEN TRUE
       ELSE IF operator = "<" /\ tp >= value THEN TRUE
       ELSE IF operator = "<=" /\ tp > value THEN TRUE
       ELSE IF operator = "min" /\ tp < value THEN TRUE
       ELSE IF operator = "max" /\ tp > value THEN TRUE
       ELSE FALSE

\* A wrong variant: only the first condition of the list is looked at.
ThresholdLoopFirstOnly(conditions_list, tp) ==
    conditions_list # <<>> /\ CondFails(Head(conditions_list), tp)

\* for cond in conditions_list: TRUE when some iteration returns False.
RECURSIVE ThresholdLoopFails(_, _)
ThresholdLoopFails(conditions_list, tp) ==
    IF conditions_list = <<>> THEN FALSE
    ELSE IF CondFails(Head(conditions_list), tp) THEN TRUE
    ELSE ThresholdLoopFails(Tail(conditions_list), tp)

\* `if threshold_condition:` None, {} and [] are falsy.
ThresholdTruthy(t) ==
    IF t.kind = "absent" THEN FALSE
    ELSE IF t.kind = "dict" THEN t.conds[1].has_operator \/ t.conds[1].has_value
    ELSE t.conds # <<>>

\* `if billing_account_filter:` None, "", [] and {} are falsy.
FilterTruthy(f) ==
    IF f.kind = "absent" THEN FALSE
    ELSE IF f.kind = "str" THEN f.s # <<>>
    ELSE IF f.kind = "list" THEN f.items # <<>>
    ELSE f.has_pattern

\* The billing-account block: TRUE when it returns False.
BillingAccountFilterFails(billing_account_filter, id) ==
    IF FilterTruthy(billing_account_filter)
    THEN IF billing_account_filter.kind = "list"
         THEN ~(\E i \in 1..Len(billing_account_filter.items) :
                    billing_account_filter.items[i] = id)
         ELSE IF billing_account_filter.kind = "dict"
         THEN /\ billing_account_filter.has_pattern
              /\ billing_account_filter.pattern # <<>>
              /\ ~MatchesPattern(id, billing_account_filter.pattern)
         ELSE id # billing_account_filter.s
    ELSE FALSE

\* The budget-id block: TRUE when it returns False.
BudgetIdFilterFails(budget_id_filter, id) ==
    IF FilterTruthy(budget_id_filter)
    THEN IF budget_id_filter.kind = "list"
         THEN ~(\E i \in 1..Len(budget_id_filter.items) : budget_id_filter.items[i] = id)
         ELSE IF budget_id_filter.kind = "dict"
         THEN /\ budget_id_filter.has_pattern
              /\ budget_id_filter.pattern # <<>>
              /\ ~MatchesPattern(id, budget_id_filter.pattern)
         ELSE id # budget_id_filter.s
    ELSE FALSE

\* A wrong variant: the budget-id block hangs off the billing-account block as
\* an `elif`, so it is skipped when a billing-account filter is given.
MatchesRuleElif(rule, tp, ba_id, b_id) ==
    LET conditions == IF rule.has_conditions THEN rule.conditions ELSE NoConditions
        threshold_condition == conditions.threshold_percent
    IN IF ThresholdTruthy(threshold_condition)
          /\ ThresholdLoopFails(threshold_condition.conds, tp)
       THEN FALSE
       ELSE IF FilterTruthy(conditions.billing_account_filter)
       THEN ~BillingAccountFilterFails(conditions.billing_account_filter, ba_id)
       ELSE IF BudgetIdFilterFails(conditions.budget_id_filter, b_id)
       THEN FALSE
       ELSE TRUE

MatchesRule(rule, tp, ba_id, b_id) ==
    LET conditions == IF rule.has_conditions THEN rule.conditions ELSE NoConditions
        threshold_condition == conditions.threshold_percent
        conditions_list == threshold_condition.conds
    IN IF ThresholdTruthy(threshold_condition) /\ ThresholdLoopFails(conditions_list, tp)
       THEN FALSE
       ELSE IF BillingAccountFilterFails(conditions.billing_account_filter, ba_id)
       THEN FALSE
       ELSE IF BudgetIdFilterFails(conditions.budget_id_filter, b_id)
       THEN FALSE
       ELSE TRUE

(***************************************************************************)
(* RuleEngine._get_rule_actions                                            *)
(***************************************************************************)
NonResourceActions == {"send_mail"}

\* A wrong variant: a targeting key counts only when its value is non-empty.
HasNonEmptyTargets(action_copy) ==
    \/ action_copy.has_target_projects /\ action_copy.target_projects # <<>>
    \/ action_copy.has_target_folders /\ action_copy.target_folders # <<>>
    \/ action_copy.has_target_organization /\ action_copy.target_organization # <<>>
    \/ action_copy.has_target_labels /\ DOMAIN action_copy.target_labels # {}

\* any(["target_projects" in action_copy, ...]): the keys' presence.
HasTargets(action_copy) ==
    \/ action_copy.has_target_projects
    \/ action_copy.has_target_folders
    \/ action_copy.has_target_organization
    \/ action_copy.has_target_labels

\* A wrong variant: the untargeted action ends the loop (break for continue).
RECURSIVE GetRuleActionsBreak(_)
GetRuleActionsBreak(acts) ==
    IF acts = <<>> THEN <<>>
    ELSE LET action_copy == Head(acts)
         IN IF action_copy.has_type /\ action_copy.type \in NonResourceActions
            THEN <<action_copy>> \o GetRuleActionsBreak(Tail(acts))
            ELSE IF ~HasTargets(action_copy)
            THEN <<>>
            ELSE <<action_copy>> \o GetRuleActionsBreak(Tail(acts))

\* The loop over rule["actions"]: each action is copied, then kept or skipped.
RECURSIVE GetRuleActions(_)
GetRuleActions(acts) ==
    IF acts = <<>> THEN <<>>
    ELSE LET action_copy == Head(acts)
         IN IF action_copy.has_type /\ action_copy.type \in NonResourceActions
            THEN <<action_copy>> \o GetRuleActions(Tail(acts))
            ELSE IF ~HasTargets(action_copy)
            THEN GetRuleActions(Tail(acts))
            ELSE <<action_copy>> \o GetRuleActions(Tail(acts))

(***************************************************************************)
(* RuleEngine.evaluate                                                     *)
(***************************************************************************)
BudgetData(cost, budget) ==
    [has_costAmount |-> cost.has, costAmount |-> cost.v,
     has_budgetAmount |-> budget.has, budgetAmount |-> budget.v]
Num(n) == [has |-> TRUE, v |-> n]
NoNum == [has |-> FALSE, v |-> 0]

Attributes(ba, b) ==
    [has_billingAccountId |-> ba.has, billingAccountId |-> ba.v,
     has_budgetId |-> b.has, budgetId |-> b.v]

\* A wrong variant: the guard lets a zero budget through.
BudgetGuardNonNegative(budget_amount) == budget_amount >= 0

\* `if budget_amount > 0`
BudgetGuard(budget_amount) == budget_amount > 0

\* round(cost_amount / budget_amount * 100, 1) for budget_amount > 0, in
\* hundredths of a percent. The quotient is a float: where the exact quotient
\* lies halfway between two tenths the float lies to one side of the tie, and
\* which side is not determined here, so both neighbours are possible.
RoundOneDecimal(cost_amount, budget_amount) ==
    LET n == cost_amount * 1000
        q == n \div budget_amount
        r == n % budget_amount
    IN IF 2 * r < budget_amount THEN {10 * q}
       ELSE IF 2 * r > budget_amount THEN {10 * (q + 1)}
       ELSE {10 * q, 10 * (q + 1)}

\* Lines 41-48: the amounts, the threshold and the two identifiers. Dividing
\* by a zero budget would raise ZeroDivisionError.
EvaluateStart ==
    /\ pc = "evaluate"
    /\ LET cost_amount == IF budget_data.has_costAmount THEN budget_data.costAmount ELSE 0
           budget_amount ==
               IF budget_data.has_budgetAmount THEN budget_data.budgetAmount ELSE 0
       IN IF BudgetGuard(budget_amount)
          THEN IF budget_amount = 0
               THEN pc' = "raised" /\ UNCHANGED threshold_percent
               ELSE /\ threshold_percent' \in RoundOneDecimal(cost_amount, budget_amount)
                    /\ pc' = "rules"
          ELSE threshold_percent' = 0 /\ pc' = "rules"
    /\ billing_account_id' =
           IF attributes.has_billingAccountId THEN attributes.billingAccountId ELSE Unknown
    /\ budget_id' = IF attributes.has_budgetId THEN attributes.budgetId ELSE Unknown
    /\ actions' = <<>>
    /\ UNCHANGED <<rules, budget_data, attributes, rule_idx, matches,
                   discovery_vars, pattern_vars, ext_vars>>

\* A wrong variant: an action already in the list is not added again.
RECURSIVE ExtendUnique(_, _)
ExtendUnique(acts, more) ==
    IF more = <<>> THEN acts
    ELSE IF \E i \in 1..Len(acts) : acts[i] = Head(more)
    THEN ExtendUnique(acts, Tail(more))
    ELSE ExtendUnique(Append(acts, Head(more)), Tail(more))

\* actions.extend(...)
Extend(acts, more) == acts \o more

\* A wrong variant: the actions of a rule are added whether it matches or not.
EvaluateRuleAlways ==
    /\ pc = "rules"
    /\ rule_idx <= Len(rules)
    /\ LET rule == rules[rule_idx]
           m == MatchesRule(rule, threshold_percent, billing_account_id, budget_id)
       IN /\ matches' = Append(matches, m)
          /\ actions' = Extend(actions, GetRuleActions(rule.actions))
    /\ rule_idx' = rule_idx + 1
    /\ UNCHANGED <<pc, rules, budget_data, attributes, threshold_percent,
                   billing_account_id, budget_id, discovery_vars, pattern_vars, ext_vars>>

\* One iteration of `for rule in self.rules` (lines 63-65).
EvaluateRule ==
    /\ pc = "rules"
    /\ rule_idx <= Len(rules)
    /\ LET rule == rules[rule_idx]
           m == MatchesRule(rule, threshold_percent, billing_account_id, budget_id)
       IN /\ matches' = Append(matches, m)
          /\ actions' = IF m THEN Extend(actions, GetRuleActions(rule.actions)) ELSE actions
    /\ rule_idx' = rule_idx + 1
    /\ UNCHANGED <<pc, rules, budget_data, attributes, threshold_percent,
                   billing_account_id, budget_id, discovery_vars, pattern_vars, ext_vars>>

\* `return actions` once the loop is over.
EvaluateReturn ==
    /\ pc = "rules"
    /\ rule_idx > Len(rules)
    /\ pc' = "done"
    /\ UNCHANGED <<engine_vars, discovery_vars, pattern_vars, ext_vars>>

NextEvaluate ==
    \/ EvaluateStart
    \/ EvaluateRule
    \/ EvaluateReturn

\* The state at the call of evaluate, the arguments and the rules apart.
EvaluateEntry ==
    /\ pc = "evaluate"
    /\ threshold_percent = 0
    /\ billing_account_id = <<>>
    /\ budget_id = <<>>
    /\ rule_idx = 1
    /\ matches = <<>>
    /\ actions = <<>>
    /\ DiscoveryIdle
    /\ PatternIdle
    /\ ExtIdle

(***************************************************************************)
(* The inputs the specifications draw from                                 *)
(***************************************************************************)
Operators == {">=", ">", "==", "<", "<=", "min", "max"}
MistypedOperator == "=>"

\* Threshold values, in hundredths: 80, 89.99, 90 and 100 percent.
SingleValues == {8000, 8999, 9000, 10000}
RangeValues == {8000, 8999}

SingleConds ==
    {Cond(op, v) : op \in Operators \cup {MistypedOperator}, v \in SingleValues}
    \cup {CondNoOperator(v) : v \in SingleValues}
    \cup {CondNoValue(op) : op \in Operators \cup {MistypedOperator}}
    \cup {CondEmpty}

ListConds ==
    {Cond(op, v) : op \in Operators, v \in RangeValues}
    \cup {CondEmpty, CondNoValue("max"), Cond(MistypedOperator, 8000)}

ThresholdConditions ==
    {ThresholdAbsent}
    \cup {ThresholdDict(c) : c \in SingleConds}
    \cup {ThresholdList(cs) : cs \in SeqsUpTo(ListConds, MaxConds)}

\* Costs against a budget of 1000: 79, 79.5, 80, 82, 85, 89.9, 90, 95, 99.9
\* and 100 percent.
PercentCosts == {790, 795, 800, 820, 850, 899, 900, 950, 999, 1000}

\* Identifiers, as strings: "d-x" and "dxx".
Id1 == <<"d", "-", "x">>
Id2 == <<"d", "x", "x">>
NoStr == [has |-> FALSE, v |-> <<>>]

Filters ==
    {FilterAbsent, FilterEmptyDict,
     FilterStr(Id1), FilterStr(<<>>), FilterStr(Unknown),
     FilterList(<<>>), FilterList(<<Id1>>), FilterList(<<Id2, Unknown>>),
     FilterPattern(<<"d", "-", "*">>), FilterPattern(<<"d", ".", "x">>),
     FilterPattern(<<>>)}

MailAction == Action("send_mail", NoKey, NoKey, NoKey, NoKey)

ActionPool ==
    {Action("restrict_services", Key(<<"p1">>), NoKey, NoKey, NoKey),
     MailAction,
     Action("log_only", NoKey, NoKey, NoKey, NoKey),
     Action("log_only", Key(<<>>), NoKey, NoKey, NoKey),
     Action("log_only", NoKey, Key(<<"f1">>), NoKey, NoKey),
     Action("apply_constraint", NoKey, NoKey, Key(<<>>), NoKey),
     Action("restrict_services", NoKey, NoKey, NoKey, Key(<<>>)),
     Action("restrict_services", Key(<<"p1">>), NoKey, NoKey,
            Key([k \in {"env"} |-> "prod"]))}

\* A rule set for whole evaluations: a warning range, two critical rules that
\* contribute the same action, a rule without conditions and one for a
\* billing account.
RulePool ==
    {Rule("warn", Conditions(ThresholdList(<<Cond("min", 8000), Cond("max", 8999)>>),
                             FilterAbsent, FilterAbsent),
          <<Action("log_only", NoKey, Key(<<"f1">>), NoKey, NoKey), MailAction>>),
     Rule("critical", Conditions(ThresholdDict(Cond(">=", 9000)), FilterAbsent, FilterAbsent),
          <<Action("restrict_services", Key(<<"p1">>), NoKey, NoKey, NoKey)>>),
     Rule("critical-2", Conditions(ThresholdDict(Cond(">=", 9000)), FilterAbsent, FilterAbsent),
          <<Action("restrict_services", Key(<<"p1">>), NoKey, NoKey, NoKey)>>),
     RuleWithoutConditions("always",
          <<Action("log_only", NoKey, NoKey, NoKey, NoKey), MailAction>>),
     Rule("account", Conditions(ThresholdAbsent, FilterStr(Id1), FilterAbsent),
          <<Action("apply_constraint", NoKey, NoKey, Key(<<"o", "1">>), NoKey)>>)}

CostAmounts == {NoNum, Num(0), Num(1), Num(3), Num(795), Num(850), Num(920), Num(1000), Num(1200)}
BudgetAmounts == {NoNum, Num(0 - 1000), Num(0), Num(3), Num(1000), Num(2000)}

\* _matches_rule on one rule that has a threshold condition only.
InitThreshold ==
    /\ rules \in {<<Rule("r", Conditions(t, FilterAbsent, FilterAbsent), <<MailAction>>)>> :
                     t \in ThresholdConditions}
    /\ budget_data \in {BudgetData(Num(c), Num(1000)) : c \in PercentCosts}
    /\ attributes = Attributes(NoStr, NoStr)
    /\ EvaluateEntry

\* _matches_rule on one rule with any mix of the three conditions.
InitMatch ==
    /\ rules \in
         {<<Rule("r", Conditions(t, ba, b), <<MailAction>>)>> :
             t \in {ThresholdAbsent, ThresholdDict(Cond(">=", 8000)),
                    ThresholdList(<<Cond("min", 8000), Cond("max", 8999)>>)},
             ba \in Filters, b \in Filters}
         \cup {<<RuleWithoutConditions("r", <<MailAction>>)>>}
    /\ budget_data \in {BudgetData(Num(c), Num(1000)) : c \in {790, 850}}
    /\ attributes \in {Attributes(ba, b) : ba \in {NoStr, Key(Id1), Key(Id2)},
                                           b \in {NoStr, Key(Id1), Key(Id2)}}
    /\ EvaluateEntry

\* _get_rule_actions on one rule that always matches.
InitActions ==
    /\ rules \in {<<RuleWithoutConditions("r", acts)>> : acts \in SeqsUpTo(ActionPool, MaxActions)}
    /\ budget_data \in {BudgetData(Num(850), Num(1000)), BudgetData(NoNum, NoNum)}
    /\ attributes = Attributes(NoStr, NoStr)
    /\ EvaluateEntry

\* evaluate on a rule set.
InitEvaluate ==
    /\ rules \in SeqsUpTo(RulePool, MaxRules)
    /\ budget_data \in {BudgetData(c, b) : c \in CostAmounts, b \in BudgetAmounts}
    /\ attributes \in {Attributes(NoStr, NoStr), Attributes(Key(Id1), Key(Id2))}
    /\ EvaluateEntry

\* Two rules with adjacent ranges [a, b - 0.01] and [b, c], in hundredths.
RangeRule(name, lo, hi) ==
    Rule(name, Conditions(ThresholdList(<<Cond("min", lo), Cond("max", hi)>>),
                          FilterAbsent, FilterAbsent),
         <<Action("log_only", Key(<<name>>), NoKey, NoKey, NoKey)>>)
AdjacentRanges == {<<8000, 9000, 9999>>, <<8000, 9001, 10000>>, <<5000, 8995, 9000>>}

\* Costs from 50 to 101 percent of a budget of 3000 (thirds of a tenth) and
\* from 75 percent of a budget of 2000 (halves of a tenth).
InitRanges ==
    /\ rules \in {<<RangeRule("low", t[1], t[2] - 1), RangeRule("high", t[2], t[3])>> :
                     t \in AdjacentRanges}
    /\ budget_data \in {BudgetData(Num(c), Num(b)) : c \in 1500..3030, b \in {2000, 3000}}
    /\ attributes = Attributes(NoStr, NoStr)
    /\ EvaluateEntry

SpecRanges == InitRanges /\ [][NextEvaluate]_vars
SpecThreshold == InitThreshold /\ [][NextEvaluate]_vars
SpecMatch == InitMatch /\ [][NextEvaluate]_vars
SpecActions == InitActions /\ [][NextEvaluate]_vars
SpecEvaluate == InitEvaluate /\ [][NextEvaluate]_vars

(***************************************************************************)
(* handler._resolve_action_targets                                         *)
(***************************************************************************)
\* None, as a display name: no project has an empty display name.
None == <<>>

\* A (resource_id, resource_type, display_name) tuple.
Target(resource_id, resource_type, display_name) ==
    <<resource_id, resource_type, display_name>>

\* Lines 88-101: the explicit projects, then the folders, then the
\* organization, each key only when the action holds it.
ExplicitTargets(a) ==
    LET project_targets ==
            IF a.has_target_projects
            THEN [i \in 1..Len(a.target_projects) |->
                     Target(a.target_projects[i], "project", None)]
            ELSE <<>>
        folder_targets ==
            IF a.has_target_folders
            THEN [i \in 1..Len(a.target_folders) |->
                     Target(a.target_folders[i], "folder", None)]
            ELSE <<>>
        organization_targets ==
            IF a.has_target_organization
            THEN <<Target(a.target_organization, "organization", None)>>
            ELSE <<>>
    IN project_targets \o folder_targets \o organization_targets

\* A wrong variant: a discovered project already among the targets is left out.
RECURSIVE DiscoveredTargetsUnique(_, _)
DiscoveredTargetsUnique(tgts, discovered_projects) ==
    IF discovered_projects = <<>> THEN tgts
    ELSE LET project_info == Head(discovered_projects)
         IN IF \E i \in 1..Len(tgts) :
                   tgts[i][2] = "project" /\ tgts[i][1] = project_info.project_id
            THEN DiscoveredTargetsUnique(tgts, Tail(discovered_projects))
            ELSE DiscoveredTargetsUnique(
                     Append(tgts, Target(project_info.project_id, "project",
                                         project_info.display_name)),
                     Tail(discovered_projects))

\* Lines 109-113: one target per discovered project, in the order returned.
DiscoveredTargets(tgts, discovered_projects) ==
    tgts \o [i \in 1..Len(discovered_projects) |->
                Target(discovered_projects[i].project_id, "project",
                       discovered_projects[i].display_name)]

\* Lines 86-107: the explicit targets; with target_labels the discovery is
\* called with the label map and the organization id.
ResolveExplicit ==
    /\ pc = "resolve_targets"
    /\ targets' = ExplicitTargets(action)
    /\ IF action.has_target_labels
       THEN /\ label_filters' = action.target_labels
            /\ query' = {}
            /\ projects' = <<>>
            /\ project_data' = <<>>
            /\ stack' = <<"resolve_labels">> \o stack
            /\ pc' = "find_projects"
       ELSE /\ pc' = "resolved"
            /\ UNCHANGED <<label_filters, query, projects, project_data, stack>>
    /\ UNCHANGED <<action, discoveries, dry_run, organization_id, pattern_vars, reuse_vars, engine_vars,
                   policy_vars, config_vars, handler_vars>>

\* Lines 108-115: the discovery has returned (its list, or [] after a
\* failure); what the search answered goes with the callee's frame.
ResolveLabels ==
    /\ pc \in {"done", "failed"}
    /\ stack # <<>>
    /\ Head(stack) = "resolve_labels"
    /\ targets' = DiscoveredTargets(targets, project_data)
    /\ discoveries' = Append(discoveries, IF pc = "failed" THEN "failed" ELSE "returned")
    /\ projects' = <<>>
    /\ stack' = Tail(stack)
    /\ pc' = "resolved"
    /\ UNCHANGED <<action, dry_run, label_filters, organization_id, query, project_data,
                   pattern_vars, reuse_vars, engine_vars, policy_vars, config_vars, handler_vars>>

NextResolve ==
    \/ ResolveExplicit
    \/ ResolveLabels
    \/ NextDiscovery

\* Resource ids: projects as the discovery names them, a folder, an organization.
P1 == <<"p", 1>>
P2 == <<"p", 2>>
F1 == <<"f", 1>>
Org1 == <<"org", 1>>

\* Actions with every mix of the four targeting keys.
ResolveActions ==
    {Action("log_only", tp, tf, to, tl) :
        tp \in {NoKey, Key(<<>>), Key(<<P1>>), Key(<<P2, P1>>)},
        tf \in {NoKey, Key(<<F1>>)},
        to \in {NoKey, Key(Org1)},
        tl \in {NoKey, Key(<<>>), Key([k \in {"env"} |-> "prod"])}}

InitResolve ==
    /\ pc = "resolve_targets"
    /\ action \in ResolveActions
    /\ targets = <<>>
    /\ discoveries = <<>>
    /\ stack = <<>>
    /\ dry_run \in BOOLEAN
    /\ organization_id \in {"", "org1"}
    /\ label_filters = <<>>
    /\ query = {}
    /\ projects = <<>>
    /\ project_data = <<>>
    /\ PatternIdle
    /\ EngineIdle
    /\ PolicyIdle
    /\ ConfigIdle
    /\ HandlerIdle
    /\ ReuseIdle

SpecResolve == InitResolve /\ [][NextResolve]_vars

(***************************************************************************)
(* BudgetResponseEngine: apply_service_restriction, apply_custom_constraint,*)
(* upsert_policy and publish_action_event                                  *)
(***************************************************************************)
ResourceTypes == {"project", "folder", "organization"}

\* get_resource_parent raises ValueError for any other resource type.
ValidResourceType(resource_type) == resource_type \in ResourceTypes

\* get_resource_parent, as the slash-separated segments of the name.
GetResourceParent(resource_id, resource_type) ==
    CASE resource_type = "project" -> <<"projects", resource_id>>
      [] resource_type = "folder" -> <<"folders", resource_id>>
      [] resource_type = "organization" -> <<"organizations", resource_id>>

\* constraint = "gcp.restrictServiceUsage"
RestrictConstraint == <<"gcp.restrictServiceUsage">>

\* f"{parent}/policies/{constraint}": a constraint written with a slash
\* contributes two segments.
PolicyName(parent, constraint) == parent \o <<"policies">> \o constraint

\* A wrong variant: only the last segment is dropped.
ParentOfDropOne(name) == SubSeq(name, 1, Len(name) - 1)

\* "/".join(policy.name.split("/")[:-2])
ParentOf(name) == SubSeq(name, 1, Len(name) - 2)

\* The rule of the policy apply_service_restriction builds.
RestrictionRule(c) ==
    IF c.action = "deny"
    THEN [kind |-> "denied_values", values |-> c.services, enforce |-> FALSE]
    ELSE [kind |-> "allowed_values", values |-> c.services, enforce |-> FALSE]

\* The rule of the policy apply_custom_constraint builds: `if values:`.
ConstraintRule(c) ==
    IF c.values.has /\ c.values.v # <<>>
    THEN [kind |-> "denied_values", values |-> c.values.v, enforce |-> FALSE]
    ELSE [kind |-> "enforce", values |-> <<>>, enforce |-> c.enforce]

\* Policy(name=..., spec=PolicySpec(rules=[policy_rule], ...))
BuildPolicy(c) ==
    LET parent == GetResourceParent(c.resource_id, c.resource_type)
    IN IF c.op = "restrict_services"
       THEN [name |-> PolicyName(parent, RestrictConstraint),
             rule |-> RestrictionRule(c), inherit_from_parent |-> TRUE]
       ELSE [name |-> PolicyName(parent, c.constraint),
             rule |-> ConstraintRule(c), inherit_from_parent |-> FALSE]

\* A wrong variant: the dry-run branch is never taken.
NeverDryRunBranch(dry) == FALSE

\* `if self.dry_run:`
TakesDryRunBranch(dry) == dry

\* A wrong variant: only ValueError is caught.
CaughtValueError(kind) == kind = "ValueError"

\* `except Exception as e:` in the apply_* methods.
Caught(kind) == TRUE

\* The details handed to publish_action_event.
EventDetails(c, err) ==
    IF c.op = "restrict_services"
    THEN [constraint |-> RestrictConstraint, action |-> c.action,
          services |-> c.services, error |-> err]
    ELSE [constraint |-> c.constraint, enforce |-> c.enforce,
          values |-> c.values, error |-> err]

\* A wrong variant: the event always reports a success.
ActionEventAlwaysOk(action_type, resource_id, resource_type, ok, details) ==
    [action_type |-> action_type, resource_id |-> resource_id,
     resource_type |-> resource_type, success |-> TRUE,
     organization_id |-> organization_id, details |-> details]

\* event_data of publish_action_event (the timestamp apart).
ActionEvent(action_type, resource_id, resource_type, ok, details) ==
    [action_type |-> action_type, resource_id |-> resource_id,
     resource_type |-> resource_type, success |-> ok,
     organization_id |-> organization_id, details |-> details]

\* The publish_action_event call that ends an apply_* method.
ApplyEvent(ok, err) ==
    ActionEvent(call.op, call.resource_id, call.resource_type, ok, EventDetails(call, err))

PolicyExists(name) == \E q \in policies : q.name = name

\* A policy another actor wrote under the same name.
OtherPolicy(name) ==
    [name |-> name, rule |-> [kind |-> "enforce", values |-> <<>>, enforce |-> TRUE],
     inherit_from_parent |-> FALSE]

\* One call on self.org_policy_client and how it ended.
ClientCall(method, name, parent, outcome) ==
    [method |-> method, name |-> name, parent |-> parent, outcome |-> outcome]

\* Dry run: nothing is built and no client exists; success = True.
ApplyDryRun ==
    /\ pc = "apply"
    /\ TakesDryRunBranch(dry_run)
    /\ success' = TRUE
    /\ event' = ApplyEvent(TRUE, error_message)
    /\ stack' = <<"apply">> \o stack
    /\ pc' = "publish"
    /\ UNCHANGED <<event_topic, call, policy, policies, interfered, client_calls, exc,
                   error_message, publish_calls, published, returned>>
    /\ UNCHANGED <<discovery_vars, pattern_vars, reuse_vars, engine_vars, resolve_vars, config_vars,
                   handler_vars>>

\* get_resource_parent raises ValueError: the except branch sets the message.
ApplyInvalidType ==
    /\ pc = "apply"
    /\ ~TakesDryRunBranch(dry_run)
    /\ ~ValidResourceType(call.resource_type)
    /\ IF Caught("ValueError")
       THEN /\ error_message' = Error("ValueError")
            /\ event' = ApplyEvent(success, Error("ValueError"))
            /\ stack' = <<"apply">> \o stack
            /\ pc' = "publish"
       ELSE /\ pc' = "raised"
            /\ UNCHANGED <<error_message, event, stack>>
    /\ exc' = Error("ValueError")
    /\ UNCHANGED <<event_topic, call, policy, policies, interfered, client_calls,
                   success, publish_calls, published, returned>>
    /\ UNCHANGED <<discovery_vars, pattern_vars, reuse_vars, engine_vars, resolve_vars, config_vars,
                   handler_vars>>

\* The policy is built and upsert_policy is called.
ApplyBuildPolicy ==
    /\ pc = "apply"
    /\ ~TakesDryRunBranch(dry_run)
    /\ ValidResourceType(call.resource_type)
    /\ policy' = BuildPolicy(call)
    /\ stack' = <<"apply">> \o stack
    /\ pc' = "get_policy"
    /\ UNCHANGED <<event_topic, call, policies, interfered, client_calls, exc, success,
                   error_message, event, publish_calls, published, returned>>
    /\ UNCHANGED <<discovery_vars, pattern_vars, reuse_vars, engine_vars, resolve_vars, config_vars,
                   handler_vars>>

\* What the service answers to a read or an update of the policy, and to its
\* creation: by the policy's existence, or with a failure of its own.
ReadOutcomes(name) ==
    (IF PolicyExists(name) THEN {"ok"} ELSE {"NotFound"}) \cup {"PermissionDenied"}
CreateOutcomes(name) ==
    (IF PolicyExists(name) THEN {"AlreadyExists"} ELSE {"ok"}) \cup {"PermissionDenied"}

\* The service's policies once `p` is written.
WithPolicy(p) == {q \in policies : q.name # p.name} \cup {p}

\* upsert_policy, line 107: self.org_policy_client.get_policy(name=policy.name)
GetPolicy ==
    /\ pc = "get_policy"
    /\ \E outcome \in ReadOutcomes(policy.name) :
        /\ client_calls' =
               Append(client_calls, ClientCall("get_policy", policy.name, <<>>, outcome))
        /\ pc' = CASE outcome = "ok" -> "update_policy"
                   [] outcome = "NotFound" -> "create_policy"
                   [] OTHER -> "upsert_raised"
        /\ exc' = IF outcome \in {"ok", "NotFound"} THEN exc ELSE Error(outcome)
    /\ UNCHANGED <<event_topic, call, policy, policies, interfered, success, error_message,
                   event, publish_calls, published, returned, stack>>
    /\ UNCHANGED <<discovery_vars, pattern_vars, reuse_vars, engine_vars, resolve_vars, config_vars,
                   handler_vars>>

\* A wrong variant: a NotFound raised by update_policy is not caught.
UpdatePolicyOutsideTry ==
    /\ pc = "update_policy"
    /\ \E outcome \in ReadOutcomes(policy.name) :
        /\ client_calls' =
               Append(client_calls, ClientCall("update_policy", policy.name, <<>>, outcome))
        /\ policies' = IF outcome = "ok" THEN WithPolicy(policy) ELSE policies
        /\ pc' = IF outcome = "ok" THEN "upsert_done" ELSE "upsert_raised"
        /\ exc' = IF outcome = "ok" THEN exc ELSE Error(outcome)
    /\ UNCHANGED <<event_topic, call, policy, interfered, success, error_message,
                   event, publish_calls, published, returned, stack>>
    /\ UNCHANGED <<discovery_vars, pattern_vars, reuse_vars, engine_vars, resolve_vars, config_vars,
                   handler_vars>>

\* Line 109: self.org_policy_client.update_policy(policy=policy), in the same
\* try block as the read.
UpdatePolicy ==
    /\ pc = "update_policy"
    /\ \E outcome \in ReadOutcomes(policy.name) :
        /\ client_calls' =
               Append(client_calls, ClientCall("update_policy", policy.name, <<>>, outcome))
        /\ policies' = IF outcome = "ok" THEN WithPolicy(policy) ELSE policies
        /\ pc' = CASE outcome = "ok" -> "upsert_done"
                   [] outcome = "NotFound" -> "create_policy"
                   [] OTHER -> "upsert_raised"
        /\ exc' = IF outcome \in {"ok", "NotFound"} THEN exc ELSE Error(outcome)
    /\ UNCHANGED <<event_topic, call, policy, interfered, success, error_message,
                   event, publish_calls, published, returned, stack>>
    /\ UNCHANGED <<discovery_vars, pattern_vars, reuse_vars, engine_vars, resolve_vars, config_vars,
                   handler_vars>>

\* Lines 111-116, the except NotFound branch: create_policy with the parent
\* cut out of the policy name; what it raises is not caught here.
CreatePolicy ==
    /\ pc = "create_policy"
    /\ \E outcome \in CreateOutcomes(policy.name) :
        /\ client_calls' =
               Append(client_calls,
                      ClientCall("create_policy", policy.name, ParentOf(policy.name), outcome))
        /\ policies' = IF outcome = "ok" THEN WithPolicy(policy) ELSE policies
        /\ pc' = IF outcome = "ok" THEN "upsert_done" ELSE "upsert_raised"
        /\ exc' = IF outcome = "ok" THEN exc ELSE Error(outcome)
    /\ UNCHANGED <<event_topic, call, policy, interfered, success, error_message,
                   event, publish_calls, published, returned, stack>>
    /\ UNCHANGED <<discovery_vars, pattern_vars, reuse_vars, engine_vars, resolve_vars, config_vars,
                   handler_vars>>

\* Between two calls of upsert_policy another actor deletes the policy, or
\* creates it.
OtherActorWrites ==
    /\ pc \in {"update_policy", "create_policy"}
    /\ ~interfered
    /\ interfered' = TRUE
    /\ policies' = IF PolicyExists(policy.name)
                   THEN {q \in policies : q.name # policy.name}
                   ELSE policies \cup {OtherPolicy(policy.name)}
    /\ UNCHANGED <<pc, event_topic, call, policy, client_calls, exc, success, error_message,
                   event, publish_calls, published, returned, stack>>
    /\ UNCHANGED <<discovery_vars, pattern_vars, reuse_vars, engine_vars, resolve_vars, config_vars,
                   handler_vars>>

\* upsert_policy has returned or raised: success = True, or the except branch
\* of the apply_* method; then publish_action_event is called.
ApplyAfterUpsert ==
    /\ pc \in {"upsert_done", "upsert_raised"}
    /\ stack # <<>>
    /\ Head(stack) = "apply"
    /\ IF pc = "upsert_done"
       THEN /\ success' = TRUE
            /\ event' = ApplyEvent(TRUE, error_message)
            /\ pc' = "publish"
            /\ UNCHANGED <<error_message, stack>>
       ELSE IF Caught(exc.msg)
       THEN /\ error_message' = exc
            /\ event' = ApplyEvent(success, exc)
            /\ pc' = "publish"
            /\ UNCHANGED <<success, stack>>
       ELSE /\ pc' = "raised"
            /\ stack' = Tail(stack)
            /\ UNCHANGED <<success, error_message, event>>
    /\ UNCHANGED <<event_topic, call, policy, policies, interfered, client_calls, exc,
                   publish_calls, published, returned>>
    /\ UNCHANGED <<discovery_vars, pattern_vars, reuse_vars, engine_vars, resolve_vars, config_vars,
                   handler_vars>>

\* `if not self.publisher or not self.event_topic: return` -- a publisher
\* exists exactly when the topic is truthy.
HasPublisher(topic) == topic # ""

\* publish_action_event without a publisher: nothing is sent.
PublishNothing ==
    /\ pc = "publish"
    /\ ~HasPublisher(event_topic)
    /\ pc' = "publish_done"
    /\ UNCHANGED <<policy_vars, stack, discovery_vars, pattern_vars, reuse_vars, engine_vars, resolve_vars,
                   config_vars, handler_vars>>

\* The event is handed to the publisher and the topic receives it.
PublishEvent ==
    /\ pc = "publish"
    /\ HasPublisher(event_topic)
    /\ publish_calls' = Append(publish_calls, event)
    /\ published' = Append(published, event)
    /\ pc' = "publish_done"
    /\ UNCHANGED <<event_topic, call, policy, policies, interfered, client_calls, exc,
                   success, error_message, event, returned, stack>>
    /\ UNCHANGED <<discovery_vars, pattern_vars, reuse_vars, engine_vars, resolve_vars, config_vars,
                   handler_vars>>

\* publish raises, or future.result times out (the topic may still have
\* received the event): the exception is logged and dropped.
PublishFails ==
    /\ pc = "publish"
    /\ HasPublisher(event_topic)
    /\ publish_calls' = Append(publish_calls, event)
    /\ published' \in {published, Append(published, event)}
    /\ pc' = "publish_done"
    /\ UNCHANGED <<event_topic, call, policy, policies, interfered, client_calls, exc,
                   success, error_message, event, returned, stack>>
    /\ UNCHANGED <<discovery_vars, pattern_vars, reuse_vars, engine_vars, resolve_vars, config_vars,
                   handler_vars>>

\* `return success`
ApplyReturn ==
    /\ pc = "publish_done"
    /\ stack # <<>>
    /\ Head(stack) = "apply"
    /\ returned' = Append(returned, success)
    /\ stack' = Tail(stack)
    /\ pc' = "returned"
    /\ UNCHANGED <<event_topic, call, policy, policies, interfered, client_calls, exc,
                   success, error_message, event, publish_calls, published>>
    /\ UNCHANGED <<discovery_vars, pattern_vars, reuse_vars, engine_vars, resolve_vars, config_vars,
                   handler_vars>>

NextPolicy ==
    \/ ApplyDryRun
    \/ ApplyInvalidType
    \/ ApplyBuildPolicy
    \/ GetPolicy
    \/ UpdatePolicy
    \/ CreatePolicy
    \/ OtherActorWrites
    \/ ApplyAfterUpsert
    \/ PublishNothing
    \/ PublishEvent
    \/ PublishFails
    \/ ApplyReturn

Services == <<"compute.googleapis.com">>
Resources ==
    {<<P1, "project">>, <<F1, "folder">>, <<Org1, "organization">>, <<P1, "bucket">>}

\* The apply_service_restriction calls.
RestrictCalls ==
    {[op |-> "restrict_services", resource_id |-> r[1], resource_type |-> r[2],
      action |-> a, services |-> Services,
      constraint |-> <<>>, enforce |-> TRUE, values |-> NoKey] :
        r \in Resources, a \in {"deny", "allow"}}

\* The apply_custom_constraint calls: a boolean or a list constraint, one of
\* them written with a slash.
ConstraintCalls ==
    {[op |-> "apply_constraint", resource_id |-> r[1], resource_type |-> r[2],
      action |-> "", services |-> <<>>,
      constraint |-> c, enforce |-> e, values |-> v] :
        r \in Resources,
        c \in {<<"compute.vmExternalIpAccess">>, <<"constraints", "compute.disableSerialPortAccess">>},
        e \in BOOLEAN,
        v \in {NoKey, Key(<<>>), Key(<<"in:us-locations">>)}}

\* The policies held when the call starts: none, or one under the name the
\* call writes.
InitialPolicies(c) ==
    IF ValidResourceType(c.resource_type)
    THEN {{}, {OtherPolicy(BuildPolicy(c).name)}}
    ELSE {{}}

InitPolicy ==
    /\ pc = "apply"
    /\ stack = <<>>
    /\ dry_run \in BOOLEAN
    /\ event_topic \in {"", "projects/p/topics/t"}
    /\ organization_id = "org1"
    /\ call \in RestrictCalls \cup ConstraintCalls
    /\ policies \in InitialPolicies(call)
    /\ PolicyLocalsIdle
    /\ label_filters = <<>>
    /\ query = {}
    /\ projects = <<>>
    /\ project_data = <<>>
    /\ PatternIdle
    /\ EngineIdle
    /\ ResolveIdle
    /\ ConfigIdle
    /\ HandlerIdle
    /\ ReuseIdle

SpecPolicy == InitPolicy /\ [][NextPolicy]_vars

(***************************************************************************)
(* config.load_rules_config and RuleEngine.__init__                        *)
(***************************************************************************)
\* What a parser hands back: a mapping with or without the key "rules", or a
\* value of another type (a list, a string, None).
Mapping(has_rules, rs) == [kind |-> "mapping", has_rules |-> has_rules, rules |-> rs]
NonMapping(kind) == [kind |-> kind, has_rules |-> FALSE, rules |-> <<>>]

\* A text by its syntax and the value it denotes: valid JSON (hence valid
\* YAML), valid YAML that is not JSON (a plain line of words is a YAML
\* string), neither, or empty.
Doc(syntax, value) == [syntax |-> syntax, value |-> value]
BrokenDoc == Doc("broken", NonMapping("null"))
EmptyDoc == Doc("empty", NonMapping("null"))

\* A call either returns a value or raises.
Returns(value) == [raised |-> FALSE, exc |-> "", value |-> value]
Raises(kind) == [raised |-> TRUE, exc |-> kind, value |-> NonMapping("null")]

\* json.loads / json.load
JsonLoads(doc) ==
    IF doc.syntax = "json" THEN Returns(doc.value) ELSE Raises("JSONDecodeError")

\* yaml.safe_load: an empty document is None.
YamlSafeLoad(doc) ==
    CASE doc.syntax \in {"json", "yaml"} -> Returns(doc.value)
      [] doc.syntax = "empty" -> Returns(NonMapping("null"))
      [] OTHER -> Raises("YAMLError")

\* open(config_path): what it raises by the state of the path.
OpenFile(file) ==
    CASE file.status = "missing" -> Raises("FileNotFoundError")
      [] file.status = "denied" -> Raises("PermissionError")
      [] file.status = "directory" -> Raises("IsADirectoryError")
      [] OTHER -> Returns(NonMapping("null"))

\* Lines 44-47: the exceptions the file branch catches.
FileErrorCaught(kind) == kind \in {"FileNotFoundError", "JSONDecodeError", "YAMLError"}

\* os.environ.get("RULES_CONFIG_PATH", "/workspace/rules.json"), as the stem
\* and the extension.
DefaultConfigPath == <<"/workspace/rules", ".json">>
ConfigPath == IF environ.has_RULES_CONFIG_PATH THEN environ.RULES_CONFIG_PATH
              ELSE DefaultConfigPath

\* config_path.endswith((".yml", ".yaml"))
EndsWithYaml(path) == path[Len(path)] \in {".yml", ".yaml"}

\* {"rules": []}
DefaultConfig == Mapping(TRUE, <<>>)

\* Lines 23-33: RULES_CONFIG, when set and not empty, as JSON, then as YAML;
\* when neither parses the file is tried.
LoadFromEnv ==
    /\ pc = "load_rules_config"
    /\ IF environ.has_RULES_CONFIG /\ environ.RULES_CONFIG.syntax # "empty"
       THEN LET as_json == JsonLoads(environ.RULES_CONFIG)
                as_yaml == YamlSafeLoad(environ.RULES_CONFIG)
            IN IF ~as_json.raised
               THEN rules_config' = as_json.value /\ pc' = "config_returned"
               ELSE IF ~as_yaml.raised
               THEN rules_config' = as_yaml.value /\ pc' = "config_returned"
               ELSE pc' = "load_file" /\ UNCHANGED rules_config
       ELSE pc' = "load_file" /\ UNCHANGED rules_config
    /\ UNCHANGED <<environ, config_file, stack, discovery_vars, pattern_vars, reuse_vars, engine_vars,
                   resolve_vars, policy_vars, handler_vars>>

\* Lines 36-50: the file, parsed by its extension; the default when it is
\* missing or does not parse.
LoadFromFile ==
    /\ pc = "load_file"
    /\ LET opened == OpenFile(config_file)
           parsed == IF EndsWithYaml(ConfigPath) THEN YamlSafeLoad(config_file.doc)
                     ELSE JsonLoads(config_file.doc)
           result == IF opened.raised THEN opened ELSE parsed
       IN IF ~result.raised
          THEN rules_config' = result.value /\ pc' = "config_returned"
          ELSE IF FileErrorCaught(result.exc)
          THEN rules_config' = DefaultConfig /\ pc' = "config_returned"
          ELSE pc' = "raised" /\ UNCHANGED rules_config
    /\ UNCHANGED <<environ, config_file, stack, discovery_vars, pattern_vars, reuse_vars, engine_vars,
                   resolve_vars, policy_vars, handler_vars>>

\* RuleEngine.__init__: self.rules = rules_config.get("rules", []); a value
\* without a get method raises AttributeError.
RuleEngineInit ==
    /\ pc = "config_returned"
    /\ IF rules_config.kind = "mapping"
       THEN /\ rules' = IF rules_config.has_rules THEN rules_config.rules ELSE <<>>
            /\ pc' = "engine_built"
       ELSE /\ pc' = "raised"
            /\ UNCHANGED rules
    /\ UNCHANGED <<budget_data, attributes, threshold_percent, billing_account_id, budget_id,
                   rule_idx, matches, actions>>
    /\ UNCHANGED <<config_vars, stack, discovery_vars, pattern_vars, reuse_vars, resolve_vars, policy_vars,
                   handler_vars>>

NextConfig ==
    \/ LoadFromEnv
    \/ LoadFromFile
    \/ RuleEngineInit

\* The values a configuration text may denote.
ConfigValues ==
    {Mapping(TRUE, <<>>),
     Mapping(TRUE, <<RuleWithoutConditions("always", <<MailAction>>)>>),
     Mapping(FALSE, <<>>),
     NonMapping("list"), NonMapping("str"), NonMapping("null")}

ConfigDocs ==
    {Doc(syntax, v) : syntax \in {"json", "yaml"}, v \in ConfigValues}
    \cup {BrokenDoc, EmptyDoc}

ConfigPaths == {<<"rules", ".json">>, <<"rules", ".yaml">>, <<"rules", ".yml">>}

Environs ==
    {[has_RULES_CONFIG |-> FALSE, RULES_CONFIG |-> EmptyDoc,
      has_RULES_CONFIG_PATH |-> hp.has, RULES_CONFIG_PATH |-> hp.v] :
        hp \in {NoKey} \cup {Key(cp) : cp \in ConfigPaths}}
    \cup {[has_RULES_CONFIG |-> TRUE, RULES_CONFIG |-> d,
           has_RULES_CONFIG_PATH |-> hp.has, RULES_CONFIG_PATH |-> hp.v] :
        d \in ConfigDocs, hp \in {NoKey} \cup {Key(cp) : cp \in ConfigPaths}}

ConfigFiles ==
    {[status |-> st, doc |-> EmptyDoc] : st \in {"missing", "denied", "directory"}}
    \cup {[status |-> "ok", doc |-> d] : d \in ConfigDocs}

InitConfig ==
    /\ pc = "load_rules_config"
    /\ stack = <<>>
    /\ environ \in Environs
    /\ config_file \in ConfigFiles
    /\ rules_config = <<>>
    /\ DiscoveryIdle
    /\ PatternIdle
    /\ EngineIdle
    /\ ResolveIdle
    /\ PolicyIdle
    /\ HandlerIdle
    /\ ReuseIdle

SpecConfig == InitConfig /\ [][NextConfig]_vars

(***************************************************************************)
(* BudgetResponseEngine.send_email                                         *)
(***************************************************************************)
\* The details of the send_email event.
EmailDetails(m, err) == [template |-> m.template, recipients |-> m.to_emails, error |-> err]

\* Lines 373-436: without an email service the attempt fails and is still
\* published; the budget_alert template hands the mail to the service, which
\* sends it, refuses it or raises; any other template returns False at once
\* (policy_action is given no action_event by the handler).
SendEmail ==
    /\ pc = "send_email"
    /\ \/ /\ email_service = "none"
          /\ success' = FALSE
          /\ error_message' = Error("SMTP not configured")
          /\ event' = ActionEvent("send_email", "email", "notification", FALSE,
                                  EmailDetails(mail, Error("SMTP not configured")))
          /\ stack' = <<"send_email">> \o stack
          /\ pc' = "publish"
          /\ UNCHANGED <<emails, returned>>
       \/ /\ email_service # "none"
          /\ mail.template = "budget_alert"
          /\ \E outcome \in {"sent", "refused", "raised"} :
              /\ emails' = Append(emails, [to_emails |-> mail.to_emails,
                                           actions |-> mail.actions_taken])
              /\ success' = (outcome = "sent")
              /\ error_message' = IF outcome = "raised" THEN Error("SMTPException")
                                  ELSE NoError
              /\ event' = ActionEvent("send_email", "email", "notification",
                                      outcome = "sent",
                                      EmailDetails(mail, IF outcome = "raised"
                                                         THEN Error("SMTPException")
                                                         ELSE NoError))
          /\ stack' = <<"send_email">> \o stack
          /\ pc' = "publish"
          /\ UNCHANGED returned
       \/ /\ email_service # "none"
          /\ mail.template # "budget_alert"
          /\ success' = FALSE
          /\ error_message' = NoError
          /\ returned' = Append(returned, FALSE)
          /\ pc' = "email_returned"
          /\ UNCHANGED <<emails, event, stack>>
    /\ UNCHANGED <<event_topic, call, policy, policies, interfered, client_calls, exc,
                   publish_calls, published>>
    /\ UNCHANGED <<message, email_service, action_idx, target_idx, executed_actions, mail>>
    /\ UNCHANGED <<discovery_vars, pattern_vars, reuse_vars, engine_vars, resolve_vars, config_vars>>

\* `return success` once the event has been dealt with.
SendEmailReturn ==
    /\ pc = "publish_done"
    /\ stack # <<>>
    /\ Head(stack) = "send_email"
    /\ returned' = Append(returned, success)
    /\ stack' = Tail(stack)
    /\ pc' = "email_returned"
    /\ UNCHANGED <<event_topic, call, policy, policies, interfered, client_calls, exc,
                   success, error_message, event, publish_calls, published>>
    /\ UNCHANGED <<discovery_vars, pattern_vars, reuse_vars, engine_vars, resolve_vars, config_vars,
                   handler_vars>>

(***************************************************************************)
(* handler.budget_response_handler                                         *)
(***************************************************************************)
\* The parameters the engine's methods declare (self apart) and the
\* arguments the handler names in its calls.
ApplyServiceRestrictionParams == {"resource_id", "services", "action", "resource_type"}
ApplyCustomConstraintParams == {"resource_id", "constraint", "enforce", "values", "resource_type"}
SendEmailParams ==
    {"to_emails", "template", "budget_data", "action_event", "custom_message", "actions_taken"}
RestrictArguments == {"resource_id", "services", "action", "resource_type", "display_name"}
ConstraintArguments ==
    {"resource_id", "constraint", "enforce", "values", "resource_type", "display_name"}
SendEmailArguments ==
    {"to_emails", "template", "budget_data", "custom_message", "actions_taken"}

\* A call binds when every argument names a declared parameter; otherwise
\* Python raises TypeError before the method body runs.
Accepts(params, arguments) == arguments \subseteq params

\* A wrong variant: a missing to_emails defaults to an address.
ToEmailsOrDefault(a) == IF a.has_to_emails THEN a.to_emails ELSE <<"default@example.com">>

\* action.get("to_emails", []), action.get("template", "budget_alert")
ToEmails(a) == IF a.has_to_emails THEN a.to_emails ELSE <<>>
Template(a) == IF a.has_template THEN a.template ELSE "budget_alert"

\* action.get("message", "Budget threshold exceeded")
DefaultMessage == "Budget threshold exceeded"

\* One record of executed_actions.
ExecutedRecord(type, t, details) ==
    [type |-> type, resource_id |-> t[1], resource_type |-> t[2], display_name |-> t[3],
     details |-> details]

\* A wrong variant: an unset ORGANIZATION_ID is let through.
NoneUnset(organization) == FALSE

\* `if not organization_id`: unset (None) or empty, both "" here.
Unset(organization) == organization = ""

\* Lines 126-147: the message is decoded (an undecodable one raises, and the
\* handler re-raises); without ORGANIZATION_ID the handler returns.
HandlerDecode ==
    /\ pc = "handler"
    /\ IF ~message.decodable
       THEN /\ pc' = "raised"
            /\ UNCHANGED <<budget_data, attributes, organization_id, stack>>
       ELSE /\ budget_data' = message.budget_data
            /\ attributes' = IF message.has_attributes THEN message.attributes
                             ELSE Attributes(NoStr, NoStr)
            /\ IF Unset(environ.ORGANIZATION_ID)
               THEN /\ pc' = "handler_done"
                    /\ UNCHANGED <<organization_id, stack>>
               ELSE /\ organization_id' = environ.ORGANIZATION_ID
                    /\ stack' = <<"handler">> \o stack
                    /\ pc' = "load_rules_config"
    /\ UNCHANGED <<rules, threshold_percent, billing_account_id, budget_id, rule_idx, matches,
                   actions>>
    /\ UNCHANGED <<dry_run, label_filters, query, projects, project_data>>
    /\ UNCHANGED <<pattern_vars, reuse_vars, resolve_vars, policy_vars, config_vars, handler_vars>>

\* Lines 143-157: the engines are built and evaluate is called.
HandlerEvaluate ==
    /\ pc = "engine_built"
    /\ stack # <<>>
    /\ Head(stack) = "handler"
    /\ event_topic' = environ.ACTION_EVENT_TOPIC
    /\ pc' = "evaluate"
    /\ UNCHANGED <<call, policy, policies, interfered, client_calls, exc, success,
                   error_message, event, publish_calls, published, returned>>
    /\ UNCHANGED <<stack, discovery_vars, pattern_vars, reuse_vars, engine_vars, resolve_vars,
                   config_vars, handler_vars>>

\* Lines 159-166: `if not actions: return`, else the loop starts.
HandlerActions ==
    /\ pc = "done"
    /\ stack # <<>>
    /\ Head(stack) = "handler"
    /\ IF actions = <<>>
       THEN pc' = "handler_done"
       ELSE pc' = "next_action"
    /\ executed_actions' = <<>>
    /\ action_idx' = 1
    /\ UNCHANGED <<message, email_service, target_idx, mail, emails>>
    /\ UNCHANGED <<stack, discovery_vars, pattern_vars, reuse_vars, engine_vars, resolve_vars,
                   policy_vars, config_vars>>

\* Lines 169-215, the head of one iteration of `for action in actions`: a
\* send_mail without recipients is skipped, one with recipients calls
\* send_email with the records so far; any other action has its targets
\* resolved. After the last action the handler returns.
HandlerNextAction ==
    /\ pc = "next_action"
    /\ IF action_idx > Len(actions)
       THEN /\ pc' = "handler_done"
            /\ UNCHANGED <<action_idx, mail, action, targets>>
       ELSE LET a == actions[action_idx]
            IN IF a.has_type /\ a.type = "send_mail"
               THEN IF ToEmails(a) = <<>>
                    THEN /\ action_idx' = action_idx + 1
                         /\ UNCHANGED <<pc, mail, action, targets>>
                    ELSE /\ mail' = [to_emails |-> ToEmails(a), template |-> Template(a),
                                     actions_taken |-> executed_actions]
                         /\ pc' = IF Accepts(SendEmailParams, SendEmailArguments)
                                  THEN "send_email" ELSE "raised"
                         /\ UNCHANGED <<action_idx, action, targets>>
               ELSE /\ action' = a
                    /\ targets' = <<>>
                    /\ pc' = "resolve_targets"
                    /\ UNCHANGED <<action_idx, mail>>
    /\ UNCHANGED <<message, email_service, target_idx, executed_actions, emails, discoveries>>
    /\ UNCHANGED <<stack, discovery_vars, pattern_vars, reuse_vars, engine_vars, policy_vars, config_vars>>

\* send_email has returned: `continue`.
HandlerAfterEmail ==
    /\ pc = "email_returned"
    /\ stack # <<>>
    /\ Head(stack) = "handler"
    /\ action_idx' = action_idx + 1
    /\ pc' = "next_action"
    /\ UNCHANGED <<message, email_service, target_idx, executed_actions, mail, emails>>
    /\ UNCHANGED <<stack, discovery_vars, pattern_vars, reuse_vars, engine_vars, resolve_vars,
                   policy_vars, config_vars>>

\* Lines 217-222: an action without resolved targets is skipped.
HandlerTargets ==
    /\ pc = "resolved"
    /\ stack # <<>>
    /\ Head(stack) = "handler"
    /\ IF targets = <<>>
       THEN /\ action_idx' = action_idx + 1
            /\ pc' = "next_action"
            /\ UNCHANGED target_idx
       ELSE /\ target_idx' = 1
            /\ pc' = "execute"
            /\ UNCHANGED action_idx
    /\ UNCHANGED <<message, email_service, executed_actions, mail, emails>>
    /\ UNCHANGED <<stack, discovery_vars, pattern_vars, reuse_vars, engine_vars, resolve_vars,
                   policy_vars, config_vars>>

\* Lines 222-285, one iteration of the loop over the targets. The two policy
\* actions call the engine with the keyword display_name; log_only appends
\* its record; an unknown type is only logged.
HandlerExecute ==
    /\ pc = "execute"
    /\ LET t == targets[target_idx]
           type == IF action.has_type THEN action.type ELSE "None"
           last == target_idx = Len(targets)
       IN CASE type = "restrict_services" ->
                 /\ IF Accepts(ApplyServiceRestrictionParams, RestrictArguments)
                    THEN /\ call' = [op |-> "restrict_services", resource_id |-> t[1],
                                     resource_type |-> t[2], action |-> "deny",
                                     services |-> <<>>, constraint |-> <<>>,
                                     enforce |-> TRUE, values |-> NoKey]
                         /\ pc' = "apply"
                    ELSE /\ pc' = "raised"
                         /\ UNCHANGED call
                 /\ UNCHANGED <<executed_actions, action_idx, target_idx>>
            [] type = "apply_constraint" ->
                 /\ IF Accepts(ApplyCustomConstraintParams, ConstraintArguments)
                    THEN /\ call' = [op |-> "apply_constraint", resource_id |-> t[1],
                                     resource_type |-> t[2], action |-> "",
                                     services |-> <<>>, constraint |-> <<>>,
                                     enforce |-> TRUE, values |-> NoKey]
                         /\ pc' = "apply"
                    ELSE /\ pc' = "raised"
                         /\ UNCHANGED call
                 /\ UNCHANGED <<executed_actions, action_idx, target_idx>>
            [] OTHER ->
                 /\ executed_actions' =
                        IF type = "log_only"
                        THEN Append(executed_actions, ExecutedRecord(type, t, DefaultMessage))
                        ELSE executed_actions
                 /\ IF last
                    THEN /\ action_idx' = action_idx + 1
                         /\ pc' = "next_action"
                         /\ UNCHANGED target_idx
                    ELSE /\ target_idx' = target_idx + 1
                         /\ UNCHANGED <<pc, action_idx>>
                 /\ UNCHANGED call
    /\ UNCHANGED <<event_topic, policy, policies, interfered, client_calls, exc, success,
                   error_message, event, publish_calls, published, returned>>
    /\ UNCHANGED <<message, email_service, mail, emails>>
    /\ UNCHANGED <<stack, discovery_vars, pattern_vars, reuse_vars, engine_vars, resolve_vars, config_vars>>

NextHandler ==
    \/ HandlerDecode
    \/ NextConfig
    \/ HandlerEvaluate
    \/ NextEvaluate
    \/ HandlerActions
    \/ HandlerNextAction
    \/ SendEmail
    \/ PublishNothing
    \/ PublishEvent
    \/ PublishFails
    \/ SendEmailReturn
    \/ HandlerAfterEmail
    \/ NextResolve
    \/ HandlerTargets
    \/ HandlerExecute

\* An action of the handler's rule sets: the type, explicit projects,
\* folders, labels and, for send_mail, the recipients.
HandlerAction(type, tp, tf, tl, to_emails) ==
    [has_type |-> TRUE, type |-> type,
     has_target_projects |-> tp.has, target_projects |-> tp.v,
     has_target_folders |-> tf.has, target_folders |-> tf.v,
     has_target_organization |-> FALSE, target_organization |-> <<>>,
     has_target_labels |-> tl.has, target_labels |-> tl.v,
     has_to_emails |-> to_emails.has, to_emails |-> to_emails.v,
     has_template |-> FALSE, template |-> ""]

\* An action that names an organization and nothing else.
OrganizationAction(type, org) ==
    [HandlerAction(type, NoKey, NoKey, NoKey, NoKey)
        EXCEPT !.has_target_organization = TRUE, !.target_organization = org]

ProdLabels == [k \in {"env"} |-> "prod"]
Recipients == <<"finops@example.com">>

\* Rule sets: from 80 percent on, a label-targeted action, a restriction and
\* a mail; from 80 percent on, a restriction that mixes labels and an
\* explicit project, then a log and a mail; from 50 percent on, mails (with
\* recipients, without the key, with an empty list), logs on two targets and
\* an action of unknown type; from 80 percent on, a restriction and a log on
\* one project, then a mail; from 80 percent on, actions whose targeting
\* fields are all empty.
HandlerRuleSets ==
    {<<Rule("labels-first",
            Conditions(ThresholdList(<<Cond("min", 8000)>>), FilterAbsent, FilterAbsent),
            <<HandlerAction("log_only", NoKey, NoKey, Key(ProdLabels), NoKey),
              HandlerAction("restrict_services", Key(<<P1>>), NoKey, NoKey, NoKey),
              HandlerAction("send_mail", NoKey, NoKey, NoKey, Key(Recipients))>>)>>,
     <<Rule("mixed",
            Conditions(ThresholdList(<<Cond("min", 8000)>>), FilterAbsent, FilterAbsent),
            <<HandlerAction("apply_constraint", Key(<<P1>>), NoKey, Key(ProdLabels), NoKey),
              HandlerAction("log_only", NoKey, Key(<<F1>>), NoKey, NoKey),
              HandlerAction("send_mail", NoKey, NoKey, NoKey, Key(Recipients))>>)>>,
     <<Rule("notify",
            Conditions(ThresholdDict(Cond(">=", 5000)), FilterAbsent, FilterAbsent),
            <<HandlerAction("send_mail", NoKey, NoKey, NoKey, Key(Recipients)),
              HandlerAction("send_mail", NoKey, NoKey, NoKey, NoKey),
              HandlerAction("send_mail", NoKey, NoKey, NoKey, Key(<<>>)),
              HandlerAction("log_only", Key(<<P1, P2>>), Key(<<F1>>), NoKey, NoKey),
              HandlerAction("page", Key(<<P1>>), NoKey, NoKey, NoKey)>>),
       Rule("mail-after",
            Conditions(ThresholdList(<<Cond("min", 8000)>>), FilterAbsent, FilterAbsent),
            <<HandlerAction("send_mail", NoKey, NoKey, NoKey, Key(Recipients))>>)>>,
     <<Rule("restrict-first",
            Conditions(ThresholdList(<<Cond("min", 8000)>>), FilterAbsent, FilterAbsent),
            <<HandlerAction("restrict_services", Key(<<P1>>), NoKey, NoKey, NoKey),
              HandlerAction("log_only", Key(<<P1>>), NoKey, NoKey, NoKey),
              HandlerAction("send_mail", NoKey, NoKey, NoKey, Key(Recipients))>>)>>,
     <<Rule("untargeted",
            Conditions(ThresholdList(<<Cond("min", 8000)>>), FilterAbsent, FilterAbsent),
            <<HandlerAction("restrict_services", Key(<<>>), Key(<<>>), NoKey, NoKey),
              HandlerAction("restrict_services", NoKey, NoKey, Key(<<>>), NoKey),
              OrganizationAction("apply_constraint", <<>>)>>)>>}

\* Where the rules come from: RULES_CONFIG as JSON, the file read as YAML, a
\* RULES_CONFIG that does not parse next to a missing file, a JSON list.
HandlerConfigs ==
    {[RULES_CONFIG |-> Key(Doc("json", Mapping(TRUE, rs))),
      file |-> [status |-> "missing", doc |-> EmptyDoc]] : rs \in HandlerRuleSets}
    \cup {[RULES_CONFIG |-> NoKey,
           file |-> [status |-> "ok", doc |-> Doc("yaml", Mapping(TRUE, rs))]] :
              rs \in HandlerRuleSets}
    \cup {[RULES_CONFIG |-> Key(BrokenDoc), file |-> [status |-> "missing", doc |-> EmptyDoc]],
          [RULES_CONFIG |-> Key(Doc("json", NonMapping("list"))),
           file |-> [status |-> "missing", doc |-> EmptyDoc]]}

HandlerEnviron(cfg, org, topic) ==
    [has_RULES_CONFIG |-> cfg.RULES_CONFIG.has,
     RULES_CONFIG |-> IF cfg.RULES_CONFIG.has THEN cfg.RULES_CONFIG.v ELSE EmptyDoc,
     has_RULES_CONFIG_PATH |-> TRUE, RULES_CONFIG_PATH |-> <<"rules", ".yaml">>,
     ORGANIZATION_ID |-> org, ACTION_EVENT_TOPIC |-> topic]

\* Alerts at 40, 79.5 and 85 percent of the budget, with or without
\* attributes, and a message that cannot be decoded.
Messages ==
    {[decodable |-> TRUE, budget_data |-> BudgetData(Num(c), Num(1000)),
      has_attributes |-> at.has,
      attributes |-> IF at.has THEN at.v ELSE Attributes(NoStr, NoStr)] :
        c \in {400, 795, 850}, at \in {NoKey, Key(Attributes(Key(Id1), Key(Id2)))}}
    \cup {[decodable |-> FALSE, budget_data |-> BudgetData(NoNum, NoNum),
           has_attributes |-> FALSE, attributes |-> Attributes(NoStr, NoStr)]}

InitHandler ==
    /\ pc = "handler"
    /\ stack = <<>>
    /\ message \in Messages
    /\ \E cfg \in HandlerConfigs, org \in {"", "org1"}, topic \in {"", "projects/p/topics/t"} :
        /\ environ = HandlerEnviron(cfg, org, topic)
        /\ config_file = cfg.file
    /\ rules_config = <<>>
    /\ dry_run \in BOOLEAN
    /\ email_service \in {"none", "smtp"}
    /\ HandlerLocalsIdle
    /\ label_filters = <<>>
    /\ organization_id = ""
    /\ query = {}
    /\ projects = <<>>
    /\ project_data = <<>>
    /\ PatternIdle
    /\ EngineIdle
    /\ ResolveIdle
    /\ PolicyIdle
    /\ ReuseIdle

SpecHandler == InitHandler /\ [][NextHandler]_vars

(***************************************************************************)
(* Two callers that share one RuleEngine                                   *)
(***************************************************************************)
MaxCalls == 2           \* calls after which no caller starts another

\* The locals of an evaluate call, as its frame holds them.
Frame ==
    [pc |-> pc, budget_data |-> budget_data, attributes |-> attributes,
     threshold_percent |-> threshold_percent, billing_account_id |-> billing_account_id,
     budget_id |-> budget_id, rule_idx |-> rule_idx, matches |-> matches, actions |-> actions]

\* The frame of a call at its first statement.
NewFrame(bd, at) ==
    [pc |-> "evaluate", budget_data |-> bd, attributes |-> at,
     threshold_percent |-> 0, billing_account_id |-> <<>>, budget_id |-> <<>>,
     rule_idx |-> 1, matches |-> <<>>, actions |-> <<>>]

\* The frame f becomes the running one.
Resume(f) ==
    /\ pc' = f.pc
    /\ budget_data' = f.budget_data
    /\ attributes' = f.attributes
    /\ threshold_percent' = f.threshold_percent
    /\ billing_account_id' = f.billing_account_id
    /\ budget_id' = f.budget_id
    /\ rule_idx' = f.rule_idx
    /\ matches' = f.matches
    /\ actions' = f.actions

\* The dict object at rule["actions"][index] of self.rules[rule]: the object
\* the rule owns, with the items it holds.
RuleDict(rs, rule, index) ==
    [owner |-> "rule", rule |-> rule, index |-> index, items |-> rs[rule].actions[index]]

\* A wrong variant: the rule's own dict is appended.
DictItself(obj) == obj

\* action.copy(): a new dict object with the same top-level items.
DictCopy(obj) == [obj EXCEPT !.owner = "caller"]

\* The items a dict object holds now: a rule's dict is read through the rule.
Items(obj) ==
    IF obj.owner = "rule" THEN rules[obj.rule].actions[obj.index] ELSE obj.items

\* The actions of rule number rule, each with its place in the rule.
Placed(rs, rule) ==
    [index \in 1..Len(rs[rule].actions) |->
        rs[rule].actions[index] @@ [rule |-> rule, index |-> index]]

\* The dict objects _get_rule_actions returns for rule number rule.
RuleActionObjects(rs, rule) ==
    LET kept == GetRuleActions(Placed(rs, rule))
    IN [k \in 1..Len(kept) |-> DictCopy(RuleDict(rs, kept[k].rule, kept[k].index))]

\* The dict objects of the list evaluate returns, given what each
\* _matches_rule call returned.
RECURSIVE ReturnedObjects(_, _, _)
ReturnedObjects(rs, ms, rule) ==
    IF rule > Len(ms) THEN <<>>
    ELSE (IF ms[rule] THEN RuleActionObjects(rs, rule) ELSE <<>>)
         \o ReturnedObjects(rs, ms, rule + 1)

\* Some caller has replaced a field of a dict it received.
SomeReplaced ==
    \E c \in DOMAIN held : \E k \in DOMAIN held[c] :
        Items(held[c][k]) # initial_rules[held[c][k].rule].actions[held[c][k].index]

\* The caller receives the list.
EvaluateReturned ==
    /\ pc = "done"
    /\ results' = Append(results, [budget_data |-> budget_data, attributes |-> attributes,
                                   actions |-> actions, after_replacement |-> SomeReplaced])
    /\ held' = Append(held, ReturnedObjects(rules, matches, 1))
    /\ pc' = "returned"
    /\ UNCHANGED <<engine_vars, initial_rules, suspended, stack, discovery_vars, pattern_vars,
                   resolve_vars, policy_vars, config_vars, handler_vars>>

\* The caller calls evaluate again, for any alert.
ReuseAlerts ==
    {<<BudgetData(Num(c), Num(1000)), Attributes(NoStr, NoStr)>> : c \in {400, 850, 950}}

EvaluateAgain ==
    /\ pc = "returned"
    /\ Len(results) < MaxCalls
    /\ \E alert \in ReuseAlerts : Resume(NewFrame(alert[1], alert[2]))
    /\ UNCHANGED <<rules, reuse_vars, stack, discovery_vars, pattern_vars,
                   resolve_vars, policy_vars, config_vars, handler_vars>>

\* The other caller runs: the two calls interleave at any statement. A caller
\* with no call left to make is not scheduled.
SwitchCaller ==
    /\ pc \in {"evaluate", "rules", "done", "returned"}
    /\ suspended # <<>>
    /\ suspended.pc # "returned" \/ Len(results) < MaxCalls
    /\ Resume(suspended)
    /\ suspended' = Frame
    /\ UNCHANGED <<rules, initial_rules, results, held, stack, discovery_vars, pattern_vars,
                   resolve_vars, policy_vars, config_vars, handler_vars>>

\* What the caller puts in place of a top-level field.
Replaced(items, field) ==
    IF field = "type" THEN [items EXCEPT !.has_type = TRUE, !.type = "replaced"]
    ELSE [items EXCEPT !.has_target_projects = TRUE, !.target_projects = <<"replaced">>]

\* A caller replaces a top-level field of a dict of a list it received:
\* returned[k][field] = value. Each dict is written once.
ReplaceField ==
    /\ \E c \in DOMAIN held : \E k \in DOMAIN held[c] : \E field \in {"type", "target_projects"} :
        LET obj == held[c][k]
        IN /\ Items(obj) = initial_rules[obj.rule].actions[obj.index]
           /\ IF obj.owner = "rule"
              THEN /\ rules' = [rules EXCEPT ![obj.rule].actions[obj.index] =
                                                 Replaced(Items(obj), field)]
                   /\ UNCHANGED held
              ELSE /\ held' = [held EXCEPT ![c][k].items = Replaced(Items(obj), field)]
                   /\ UNCHANGED rules
    /\ UNCHANGED <<pc, budget_data, attributes, threshold_percent, billing_account_id,
                   budget_id, rule_idx, matches, actions, initial_rules, suspended, results,
                   stack, discovery_vars, pattern_vars, resolve_vars, policy_vars, config_vars,
                   handler_vars>>

NextReuse ==
    \/ NextEvaluate
    \/ EvaluateReturned
    \/ EvaluateAgain
    \/ SwitchCaller
    \/ ReplaceField

WarnRule ==
    Rule("warn", Conditions(ThresholdList(<<Cond("min", 8000), Cond("max", 8999)>>),
                            FilterAbsent, FilterAbsent),
         <<Action("log_only", NoKey, Key(<<"f1">>), NoKey, NoKey),
           Action("log_only", NoKey, NoKey, NoKey, NoKey), MailAction>>)
CriticalRule ==
    Rule("critical", Conditions(ThresholdDict(Cond(">=", 9000)), FilterAbsent, FilterAbsent),
         <<Action("restrict_services", Key(<<"p1">>), NoKey, NoKey, NoKey)>>)

\* Two callers, each at the first statement of a call on the same engine.
InitReuse ==
    /\ rules \in {<<WarnRule, CriticalRule>>, <<CriticalRule>>}
    /\ initial_rules = rules
    /\ \E alert \in ReuseAlerts : \E other \in ReuseAlerts :
        /\ budget_data = alert[1] /\ attributes = alert[2]
        /\ suspended = NewFrame(other[1], other[2])
    /\ results = <<>>
    /\ held = <<>>
    /\ pc = "evaluate"
    /\ threshold_percent = 0
    /\ billing_account_id = <<>>
    /\ budget_id = <<>>
    /\ rule_idx = 1
    /\ matches = <<>>
    /\ actions = <<>>
    /\ stack = <<>>
    /\ DiscoveryIdle
    /\ PatternIdle
    /\ ResolveIdle
    /\ PolicyIdle
    /\ ConfigIdle
    /\ HandlerIdle

SpecReuse == InitReuse /\ [][NextReuse]_vars

(***************************************************************************)
(* The whole model: any of the operations, from any of its entries         *)
(***************************************************************************)
Init ==
    \/ InitDiscovery
    \/ InitPattern
    \/ InitThreshold
    \/ InitMatch
    \/ InitActions
    \/ InitEvaluate
    \/ InitResolve
    \/ InitPolicy
    \/ InitConfig
    \/ InitHandler
    \/ InitReuse
    \/ InitRanges

Next ==
    \/ NextDiscovery
    \/ NextPattern
    \/ NextEvaluate
    \/ ResolveExplicit
    \/ ResolveLabels
    \/ NextPolicy
    \/ NextConfig
    \/ NextHandler
    \/ EvaluateReturned
    \/ EvaluateAgain
    \/ SwitchCaller
    \/ ReplaceField

Spec == Init /\ [][Next]_vars

(***************************************************************************)
(* Claims about the threshold step (SpecThreshold)                         *)
(***************************************************************************)
\* p op v as the claims read the operators: min is >=, max is <=.
Compare(op, p, v) ==
    CASE op = ">=" -> p >= v
      [] op = ">" -> p > v
      [] op = "==" -> p = v
      [] op = "<" -> p < v
      [] op = "<=" -> p <= v
      [] op = "min" -> p >= v
      [] op = "max" -> p <= v

\* A condition of a list holds: a missing operator is >=, a missing value is
\* 100, and an operator outside the seven constrains nothing.
Holds(c, p) ==
    LET op == IF c.has_operator THEN c.operator ELSE ">="
        v == IF c.has_value THEN c.value ELSE 10000
    IN op \in Operators => Compare(op, p, v)

TheThreshold == rules[1].conditions.threshold_percent

\* C2: a single threshold condition {operator: op, value: v} with op among the
\* seven operators holds iff thresholdPercent op v, min being >= and max <=.
C2_SingleCondition ==
    (/\ pc = "done"
     /\ TheThreshold.kind = "dict"
     /\ TheThreshold.conds[1].has_operator
     /\ TheThreshold.conds[1].has_value
     /\ TheThreshold.conds[1].operator \in Operators) =>
        (matches[1] <=> Compare(TheThreshold.conds[1].operator, threshold_percent,
                                TheThreshold.conds[1].value))

\* {min, 80} has matched 80.0: the lower bound is inclusive.
C2_Witness ==
    /\ pc = "done"
    /\ TheThreshold = ThresholdDict(Cond("min", 8000))
    /\ threshold_percent = 8000
    /\ matches = <<TRUE>>

\* C3: a list of threshold conditions passes iff every condition of the list
\* holds, whatever their order; [min:a, max:b] passes iff a <= p <= b.
C3_ListIsConjunction ==
    (pc = "done" /\ TheThreshold.kind = "list") =>
        /\ matches[1] <=>
              \A i \in 1..Len(TheThreshold.conds) : Holds(TheThreshold.conds[i], threshold_percent)
        /\ \A a, b \in RangeValues :
              TheThreshold.conds = <<Cond("min", a), Cond("max", b)>> =>
                  (matches[1] <=> (a <= threshold_percent /\ threshold_percent <= b))

\* [min:80, max:89.99] has matched 89.9.
C3_Witness ==
    /\ pc = "done"
    /\ TheThreshold = ThresholdList(<<Cond("min", 8000), Cond("max", 8999)>>)
    /\ threshold_percent = 8990
    /\ matches = <<TRUE>>

(***************************************************************************)
(* Claims about the whole rule (SpecMatch)                                 *)
(***************************************************************************)
TheConditions == IF rules[1].has_conditions THEN rules[1].conditions ELSE NoConditions

\* The rule that declares one filter only.
OnlyBillingFilter(f) == Rule("r", Conditions(ThresholdAbsent, f, FilterAbsent), <<>>)
OnlyBudgetFilter(f) == Rule("r", Conditions(ThresholdAbsent, FilterAbsent, f), <<>>)

\* C4: a rule matches iff every check it declares passes: the threshold step
\* (passing when no threshold is declared), the billing-account filter taken
\* alone and the budget-id filter taken alone; a rule without conditions
\* matches every alert.
C4_AllDeclaredChecks ==
    pc = "done" =>
        /\ matches[1] <=>
              /\ \A i \in 1..Len(TheConditions.threshold_percent.conds) :
                    Holds(TheConditions.threshold_percent.conds[i], threshold_percent)
              /\ MatchesRule(OnlyBillingFilter(TheConditions.billing_account_filter),
                             threshold_percent, billing_account_id, budget_id)
              /\ MatchesRule(OnlyBudgetFilter(TheConditions.budget_id_filter),
                             threshold_percent, billing_account_id, budget_id)
        /\ TheConditions = NoConditions => matches[1]

\* The threshold and the billing-account filter pass, the budget-id filter
\* fails, and the rule has not matched.
C4_Witness ==
    /\ pc = "done"
    /\ TheConditions = Conditions(ThresholdDict(Cond(">=", 8000)), FilterStr(Id1),
                                  FilterList(<<Id1>>))
    /\ threshold_percent = 8500
    /\ billing_account_id = Id1
    /\ budget_id = Id2
    /\ matches = <<FALSE>>

\* An identifier satisfies a filter as the claim reads it: equality for a
\* string, membership for a list, the whole-text "*" match for a pattern.
Satisfies(f, id) ==
    CASE f.kind = "str" -> id = f.s
      [] f.kind = "list" -> \E i \in 1..Len(f.items) : f.items[i] = id
      [] f.kind = "dict" -> GlobMatch(f.pattern, id)

\* The rule declares the filter. Read in the code's favour: a filter given as
\* "", [], {} or {pattern: ""} counts as not declared.
Declared(f) ==
    CASE f.kind = "str" -> Len(f.s) > 0
      [] f.kind = "list" -> Len(f.items) > 0
      [] f.kind = "dict" -> f.has_pattern /\ Len(f.pattern) > 0
      [] OTHER -> FALSE

\* C6: a rule that declares a billing-account (budget-id) filter matches only
\* if the alert's billingAccountId (budgetId), "unknown" when missing,
\* satisfies the filter.
C6_FiltersEnforced ==
    (pc = "done" /\ matches[1]) =>
        /\ Declared(TheConditions.billing_account_filter) =>
              Satisfies(TheConditions.billing_account_filter,
                        IF attributes.has_billingAccountId THEN attributes.billingAccountId
                        ELSE Unknown)
        /\ Declared(TheConditions.budget_id_filter) =>
              Satisfies(TheConditions.budget_id_filter,
                        IF attributes.has_budgetId THEN attributes.budgetId ELSE Unknown)

(***************************************************************************)
(* Claims about the extracted actions (SpecActions)                        *)
(***************************************************************************)
IsMail(a) == a.has_type /\ a.type = "send_mail"

TargetKeyPresent(a) ==
    a.has_target_projects \/ a.has_target_folders \/ a.has_target_organization
    \/ a.has_target_labels

NonEmptyTargeting(a) ==
    \/ a.has_target_projects /\ Len(a.target_projects) > 0
    \/ a.has_target_folders /\ Len(a.target_folders) > 0
    \/ a.has_target_organization /\ Len(a.target_organization) > 0
    \/ a.has_target_labels /\ Cardinality(DOMAIN a.target_labels) > 0

\* C8 as claimed: an action that is not send_mail is in the extracted list only
\* if one of its four targeting fields is present and non-empty.
C8_NonEmptyTargetsOnly ==
    pc = "done" =>
        \A i \in 1..Len(actions) : ~IsMail(actions[i]) => NonEmptyTargeting(actions[i])

C8_KeptResourceAction(a) == ~IsMail(a) /\ TargetKeyPresent(a)
C8_ResourceAction(a) == ~IsMail(a)

\* C8 as amended: the actions that are not send_mail in the extracted list are
\* exactly those of the rule that hold one of the four targeting keys, empty
\* value or not; those holding none of the keys are dropped.
C8_TargetKeyPresent ==
    pc = "done" =>
        SelectSeq(actions, C8_ResourceAction) = SelectSeq(rules[1].actions, C8_KeptResourceAction)

\* An action whose only targeting is an empty target_projects list was kept and
\* an action without any targeting key was dropped.
C8_Witness ==
    /\ pc = "done"
    /\ rules[1].actions = <<Action("log_only", NoKey, NoKey, NoKey, NoKey),
                            Action("log_only", Key(<<>>), NoKey, NoKey, NoKey)>>
    /\ actions = <<Action("log_only", Key(<<>>), NoKey, NoKey, NoKey)>>

C9_Retained(a) == IsMail(a) \/ TargetKeyPresent(a)

\* C9: the extracted list is the rule's action list without the dropped
\* actions, in the same order: every send_mail is retained, and the actions
\* after a dropped one are still considered.
C9_OrderPreservingSubsequence ==
    pc = "done" =>
        /\ actions = SelectSeq(rules[1].actions, C9_Retained)
        /\ SelectSeq(actions, IsMail) = SelectSeq(rules[1].actions, IsMail)

\* An untargeted log_only comes first and is dropped; the targeted
\* restrict_services and the send_mail after it are kept, in that order.
C9_Witness ==
    /\ pc = "done"
    /\ rules[1].actions = <<Action("log_only", NoKey, NoKey, NoKey, NoKey),
                            Action("restrict_services", Key(<<"p1">>), NoKey, NoKey, NoKey),
                            MailAction>>
    /\ actions = <<Action("restrict_services", Key(<<"p1">>), NoKey, NoKey, NoKey),
                   MailAction>>

(***************************************************************************)
(* Claims about evaluate (SpecEvaluate)                                    *)
(***************************************************************************)
Abs(x) == IF x < 0 THEN 0 - x ELSE x

\* C5: thresholdPercent is cost/budget*100 rounded to one decimal when
\* budgetAmount > 0 (a nearest tenth of the exact quotient) and 0 when
\* budgetAmount <= 0 or is missing; no division by a zero budget is attempted.
C5_ThresholdPercent ==
    /\ pc # "raised"
    /\ pc \in {"rules", "done"} =>
          LET cost == IF budget_data.has_costAmount THEN budget_data.costAmount ELSE 0
          IN IF budget_data.has_budgetAmount /\ budget_data.budgetAmount > 0
             THEN /\ threshold_percent % 10 = 0
                  /\ 2 * Abs((threshold_percent \div 10) * budget_data.budgetAmount - 1000 * cost)
                         <= budget_data.budgetAmount
             ELSE threshold_percent = 0

\* 1 of 3 is 33.3 percent, and evaluate has returned.
C5_Witness ==
    /\ pc = "done"
    /\ budget_data = BudgetData(Num(1), Num(3))
    /\ threshold_percent = 3330

\* The extracted lists of the rules from position i on that matched.
RECURSIVE MatchedActionsFrom(_)
MatchedActionsFrom(i) ==
    IF i > Len(rules) THEN <<>>
    ELSE (IF matches[i] THEN SelectSeq(rules[i].actions, C9_Retained) ELSE <<>>)
         \o MatchedActionsFrom(i + 1)

\* C10: evaluate returns the concatenation, in rule order, of the extracted
\* lists of the rules that matched, nothing removed: identical actions of two
\* matching rules both appear.
C10_ConcatenationInRuleOrder ==
    pc = "done" =>
        /\ Len(matches) = Len(rules)
        /\ \A i \in 1..Len(rules) :
              matches[i] = MatchesRule(rules[i], threshold_percent, billing_account_id, budget_id)
        /\ actions = MatchedActionsFrom(1)

\* Two matching rules contribute the same restrict_services on the same
\* project and the result holds it twice.
C10_Witness ==
    /\ pc = "done"
    /\ Len(rules) = 2
    /\ rules[1].name = "critical" /\ rules[2].name = "critical-2"
    /\ matches = <<TRUE, TRUE>>
    /\ actions = <<Action("restrict_services", Key(<<"p1">>), NoKey, NoKey, NoKey),
                   Action("restrict_services", Key(<<"p1">>), NoKey, NoKey, NoKey)>>

(***************************************************************************)
(* Claims about partially specified threshold conditions (SpecThreshold)   *)
(***************************************************************************)
\* C13: a threshold condition that omits operator is evaluated as >=, one that
\* omits value with value 100, so a condition missing both holds iff
\* thresholdPercent >= 100; this for a condition given alone or as the only
\* element of a list.
C13_DefaultsApplied ==
    (/\ pc = "done"
     /\ TheThreshold.kind \in {"dict", "list"}
     /\ Len(TheThreshold.conds) = 1
     /\ ~TheThreshold.conds[1].has_operator \/ ~TheThreshold.conds[1].has_value) =>
        (matches[1] <=> Holds(TheThreshold.conds[1], threshold_percent))

(***************************************************************************)
(* Claims about target resolution (SpecResolve)                            *)
(***************************************************************************)
\* How many targets each key of the action contributes.
NumProjects == IF action.has_target_projects THEN Len(action.target_projects) ELSE 0
NumFolders == IF action.has_target_folders THEN Len(action.target_folders) ELSE 0
NumOrganizations == IF action.has_target_organization THEN 1 ELSE 0

\* C11: the resolved targets are the explicit projects as (id, project, None),
\* then the explicit folders as (id, folder, None), then the organization as
\* (id, organization, None), then the discovered projects as (project_id,
\* project, display_name), in that order and with nothing removed.
C11_TargetsInOrder ==
    pc = "resolved" =>
        /\ Len(targets) = NumProjects + NumFolders + NumOrganizations + Len(project_data)
        /\ \A i \in 1..NumProjects :
               targets[i] = <<action.target_projects[i], "project", None>>
        /\ \A i \in 1..NumFolders :
               targets[NumProjects + i] = <<action.target_folders[i], "folder", None>>
        /\ NumOrganizations = 1 =>
               targets[NumProjects + NumFolders + 1] =
                   <<action.target_organization, "organization", None>>
        /\ \A i \in 1..Len(project_data) :
               targets[NumProjects + NumFolders + NumOrganizations + i] =
                   <<project_data[i].project_id, "project", project_data[i].display_name>>

\* All four keys contribute and a project that is targeted explicitly is
\* discovered as well: it is a target twice.
C11_Witness ==
    /\ pc = "resolved"
    /\ NumProjects = 2
    /\ NumFolders = 1
    /\ NumOrganizations = 1
    /\ Len(project_data) = 2
    /\ \E i \in 1..NumProjects :
           targets[i][1] = targets[Len(targets)][1] /\ targets[Len(targets)][3] # None

(***************************************************************************)
(* Claims about the policy operations (SpecPolicy)                         *)
(***************************************************************************)
UpsertOver == pc \in {"upsert_done", "upsert_raised"}
Methods == {client_calls[i].method : i \in 1..Len(client_calls)}

\* The parent of a create_policy call is the policy name without its last two
\* segments.
ParentFromName(c) ==
    /\ c.name = policy.name
    /\ Len(c.name) = Len(c.parent) + 2
    /\ \A i \in 1..Len(c.parent) : c.parent[i] = c.name[i]

\* A call that failed otherwise than with NotFound on the read or the update
\* is the last one, and upsert_policy raises what it raised.
FailurePropagated ==
    \A i \in 1..Len(client_calls) :
        (\/ client_calls[i].outcome \notin {"ok", "NotFound"}
         \/ client_calls[i].method = "create_policy" /\ client_calls[i].outcome # "ok") =>
            /\ i = Len(client_calls)
            /\ pc = "upsert_raised"
            /\ exc = Error(client_calls[i].outcome)

\* C17 as stated: upsert_policy first reads the policy; if the read succeeds
\* it calls update_policy and does not call create_policy; if the read raises
\* NotFound it calls create_policy with the parent taken from the policy name;
\* any other failure is propagated.
C17_UpdateXorCreate ==
    /\ client_calls # <<>> =>
           client_calls[1].method = "get_policy" /\ client_calls[1].name = policy.name
    /\ UpsertOver =>
        /\ client_calls[1].outcome = "ok" =>
               /\ client_calls[2].method = "update_policy"
               /\ "create_policy" \notin Methods
        /\ client_calls[1].outcome = "NotFound" =>
               /\ Len(client_calls) = 2
               /\ client_calls[2].method = "create_policy"
               /\ ParentFromName(client_calls[2])
        /\ FailurePropagated

\* C17, amended: as above, but after a successful read create_policy is
\* called exactly when update_policy itself raises NotFound, then as the third
\* call and with the same parent.
C17_CreateAfterNotFound ==
    /\ client_calls # <<>> =>
           client_calls[1].method = "get_policy" /\ client_calls[1].name = policy.name
    /\ UpsertOver =>
        /\ client_calls[1].outcome = "ok" =>
               /\ client_calls[2].method = "update_policy"
               /\ client_calls[2].name = policy.name
               /\ IF client_calls[2].outcome = "NotFound"
                  THEN /\ Len(client_calls) = 3
                       /\ client_calls[3].method = "create_policy"
                       /\ ParentFromName(client_calls[3])
                  ELSE Len(client_calls) = 2
        /\ client_calls[1].outcome = "NotFound" =>
               /\ Len(client_calls) = 2
               /\ client_calls[2].method = "create_policy"
               /\ ParentFromName(client_calls[2])
        /\ FailurePropagated

\* The policy is deleted between the read and the update and is created anew.
C17_Witness ==
    /\ pc = "upsert_done"
    /\ Len(client_calls) = 3
    /\ client_calls[2].outcome = "NotFound"
    /\ client_calls[3].outcome = "ok"
    /\ policy \in policies

\* The value the call under way returned.
Returned == returned[Len(returned)]
ClientFailed ==
    \E i \in 1..Len(client_calls) :
        \/ client_calls[i].outcome \notin {"ok", "NotFound"}
        \/ client_calls[i].method = "create_policy" /\ client_calls[i].outcome # "ok"
Upserted ==
    /\ client_calls # <<>>
    /\ client_calls[Len(client_calls)].method \in {"update_policy", "create_policy"}
    /\ client_calls[Len(client_calls)].outcome = "ok"
    /\ policy \in policies

\* C18: apply_service_restriction and apply_custom_constraint never raise;
\* outside dry-run they return False when the policy client fails or the
\* resource type is invalid, and they return True only when the policy was
\* upserted or the engine is in dry-run mode.
C18_FalseNotRaise ==
    /\ pc # "raised"
    /\ pc = "returned" =>
        /\ (~dry_run /\ (ClientFailed \/ ~ValidResourceType(call.resource_type))) =>
               Returned = FALSE
        /\ Returned = TRUE => (dry_run \/ Upserted)

C18_Witness ==
    /\ pc = "returned"
    /\ ~dry_run
    /\ ClientFailed
    /\ returned = <<FALSE>>

\* C19: with a topic configured every call hands exactly one event to the
\* publisher, once the attempt is over, whose success field is the returned
\* value and whose details.error is not null on failure; without a topic
\* nothing is published; a failed publish changes neither the returned value
\* nor the absence of an exception.
C19_OneEventPerCall ==
    /\ publish_calls # <<>> => pc \in {"publish_done", "returned"}
    /\ pc # "raised"
    /\ pc = "returned" =>
        /\ Returned = (dry_run \/ Upserted)
        /\ IF event_topic # ""
           THEN /\ Len(publish_calls) = 1
                /\ publish_calls[1].action_type = call.op
                /\ publish_calls[1].resource_id = call.resource_id
                /\ publish_calls[1].success = Returned
                /\ ~Returned => ~publish_calls[1].details.error.none
                /\ Len(published) <= 1
           ELSE publish_calls = <<>> /\ published = <<>>

\* The publish failed after a successful upsert: True is returned all the same.
C19_Witness ==
    /\ pc = "returned"
    /\ event_topic # ""
    /\ Upserted
    /\ Len(publish_calls) = 1
    /\ published = <<>>
    /\ returned = <<TRUE>>

\* C20: in dry-run mode no get, update or create call is made and the apply_*
\* methods return True, whatever the resource id and type.
C20_DryRunNoCalls ==
    dry_run =>
        /\ client_calls = <<>>
        /\ pc = "returned" => returned = <<TRUE>>

C20_Witness ==
    /\ dry_run
    /\ pc = "returned"
    /\ ~ValidResourceType(call.resource_type)
    /\ returned = <<TRUE>>

(***************************************************************************)
(* Claims about the configuration loader (SpecConfig)                      *)
(***************************************************************************)
\* The source load_rules_config ends up reading does not parse, or is missing.
EnvParses ==
    /\ environ.has_RULES_CONFIG
    /\ environ.RULES_CONFIG.syntax \in {"json", "yaml"}
FileParses ==
    /\ config_file.status = "ok"
    /\ IF EndsWithYaml(ConfigPath) THEN config_file.doc.syntax \in {"json", "yaml"}
       ELSE config_file.doc.syntax = "json"

\* C14: load_rules_config never crashes; when the configuration it reads does
\* not parse as JSON or YAML, or the file is missing, it returns {"rules": []};
\* whatever it returns is a mapping, so that building the RuleEngine from it
\* never raises.
C14_NeverCrashes ==
    /\ pc # "raised"
    /\ pc \in {"config_returned", "engine_built"} =>
        /\ rules_config.kind = "mapping"
        /\ (~EnvParses /\ ~FileParses /\ config_file.status \in {"ok", "missing"}) =>
               rules_config = DefaultConfig

(***************************************************************************)
(* Claims about the handler (SpecHandler)                                  *)
(***************************************************************************)
\* The positions of the handler up to the return of evaluate, and its raise.
BeforeActions ==
    {"handler", "load_rules_config", "load_file", "config_returned", "engine_built",
     "evaluate", "rules", "raised"}

\* C16: when no rule matches the alert, evaluate returns an empty list and
\* the handler ends without resolving a target, calling the policy client,
\* sending a mail or publishing an event.
C16_NoMatchNoEffect ==
    (pc \notin BeforeActions /\ \A i \in 1..Len(matches) : ~matches[i]) =>
        /\ actions = <<>>
        /\ pc \in {"done", "handler_done"}
        /\ action = <<>> /\ targets = <<>> /\ discoveries = <<>> /\ query = {}
        /\ call = <<>> /\ client_calls = <<>>
        /\ mail = <<>> /\ emails = <<>>
        /\ publish_calls = <<>> /\ published = <<>>
        /\ executed_actions = <<>>

\* 79.5 percent against a rule that starts at 80; 40 percent against rules
\* that start at 50.
C16_Witness ==
    /\ pc = "handler_done"
    /\ rules # <<>>
    /\ Len(matches) = Len(rules)
    /\ \A i \in 1..Len(matches) : ~matches[i]
    /\ \/ threshold_percent = 7950 /\ Len(rules) = 1
       \/ threshold_percent = 4000 /\ Len(rules) = 2

\* C12: a search that raises makes find_projects_by_labels return [], the
\* explicit targets of the action are resolved all the same, and the handler
\* neither raises afterwards nor ends before the last action of the list.
C12_FailureIsolated ==
    /\ pc = "failed" => project_data = <<>>
    /\ (pc = "resolved" /\ discoveries # <<>> /\ discoveries[Len(discoveries)] = "failed") =>
           targets = ExplicitTargets(action)
    /\ (\E i \in 1..Len(discoveries) : discoveries[i] = "failed") =>
           /\ pc # "raised"
           /\ pc = "handler_done" => action_idx = Len(actions) + 1

(***************************************************************************)
(* Claims about callers that share one engine (SpecReuse)                  *)
(***************************************************************************)
SameAlert(r1, r2) == r1.budget_data = r2.budget_data /\ r1.attributes = r2.attributes

\* C15: evaluate is a stateless pure transform. Whatever calls were made on
\* the engine, interleaved or not, its rule set is the one it was built with;
\* two calls for the same alert and attributes returned equal action lists;
\* and a returned action whose top-level field the caller replaced left the
\* rule's action it was copied from as it was.
C15_StatelessPure ==
    /\ rules = initial_rules
    /\ \A i \in DOMAIN results : \A j \in DOMAIN results :
          SameAlert(results[i], results[j]) => results[i].actions = results[j].actions
    /\ \A c \in DOMAIN held : \A k \in DOMAIN held[c] :
          LET obj == held[c][k]
          IN Items(obj) # initial_rules[obj.rule].actions[obj.index]
             => rules[obj.rule].actions[obj.index] = initial_rules[obj.rule].actions[obj.index]

\* A call has been under way, inside its loop over the rules, while the other
\* caller made two calls for the same alert; both returned the same non-empty
\* list, the second after the caller had replaced a field of an action of the
\* first list.
C15_Witness ==
    /\ pc = "returned"
    /\ suspended.pc = "rules" /\ suspended.rule_idx > 1
    /\ Len(results) = 2
    /\ SameAlert(results[1], results[2])
    /\ results[1].actions # <<>>
    /\ ~results[1].after_replacement
    /\ results[2].after_replacement
    /\ \E k \in DOMAIN held[1] : held[1][k].items.type = "replaced"

(***************************************************************************)
(* Claims about the handler's guards (SpecHandler)                         *)
(***************************************************************************)
\* C21: when ORGANIZATION_ID is not set and the message can be decoded, the
\* handler returns normally: it never raises, and it loads no rules,
\* evaluates no rule, resolves no target and executes no action.
C21_NoOrganizationNoWork ==
    (message.decodable /\ environ.ORGANIZATION_ID = "") =>
        /\ pc \in {"handler", "handler_done"}
        /\ rules_config = <<>>
        /\ rules = <<>>
        /\ matches = <<>>
        /\ actions = <<>>
        /\ discoveries = <<>>
        /\ targets = <<>>
        /\ executed_actions = <<>>
        /\ emails = <<>>
        /\ client_calls = <<>>
        /\ publish_calls = <<>>
        /\ returned = <<>>

\* The handler has returned for an alert at 85 percent whose rules would
\* have matched.
C21_Witness ==
    /\ pc = "handler_done"
    /\ message.decodable
    /\ environ.ORGANIZATION_ID = ""
    /\ message.budget_data.costAmount = 850
    /\ environ.has_RULES_CONFIG

(***************************************************************************)
(* Claims about the handler's loop over the actions (SpecHandler)          *)
(***************************************************************************)
IsSendMail(a) == a.has_type /\ a.type = "send_mail"
Executable == {"restrict_services", "apply_constraint", "log_only"}

\* The handler is over, after a list of actions was returned to it.
HandlerOver == pc \in {"handler_done", "raised"} /\ actions # <<>>

\* The (type, resource) pairs of the executions that precede action number n
\* of a list whose actions name their targets explicitly, in execution order.
RECURSIVE PrecedingExecutions(_, _)
PrecedingExecutions(acts, n) ==
    IF n <= 1 THEN <<>>
    ELSE LET a == acts[n - 1]
             ts == ExplicitTargets(a)
         IN PrecedingExecutions(acts, n - 1)
            \o (IF ~IsSendMail(a) /\ a.has_type /\ a.type \in Executable
                THEN [i \in 1..Len(ts) |-> <<a.type, ts[i][1]>>]
                ELSE <<>>)

ExplicitOnly(acts) == \A i \in 1..Len(acts) : ~acts[i].has_target_labels

\* The send_mail actions of a list that name a recipient.
MailsDue(acts) == {i \in 1..Len(acts) : IsSendMail(acts[i]) /\ ToEmails(acts[i]) # <<>>}

\* C22: the actions are executed strictly in order, and the actions_taken of
\* a send_mail are the records of the executions that precede it, in
\* execution order: every send_mail with recipients is reached, and after a
\* restrict_services and a log_only on one project it is given two records.
C22_MailGivenPrecedingRecords ==
    /\ (pc = "send_email" /\ ExplicitOnly(actions)) =>
           [i \in 1..Len(mail.actions_taken) |->
               <<mail.actions_taken[i].type, mail.actions_taken[i].resource_id>>]
           = PrecedingExecutions(actions, action_idx)
    /\ HandlerOver =>
           /\ action_idx = Len(actions) + 1
           /\ Len(returned) = Cardinality(MailsDue(actions))

\* A send_mail action that names at least one recipient.
HasRecipients(a) == IsSendMail(a) /\ a.has_to_emails /\ a.to_emails # <<>>
NoRecipients(a) == IsSendMail(a) /\ ~(a.has_to_emails /\ a.to_emails # <<>>)

Untargeted(a) == ~IsSendMail(a) /\ ~HasNonEmptyTargets(a)

\* C24: an action other than send_mail without a non-empty targeting field
\* never causes a policy to be applied: it is dropped by the extractor, or
\* its resolved target list is empty and the handler skips it, so the handler
\* never comes to execute it on a target.
C24_UntargetedNeverExecuted ==
    /\ \A i \in 1..Len(actions) :
          (Untargeted(actions[i]) /\ pc = "resolved" /\ action_idx = i) => targets = <<>>
    /\ pc = "execute" => ~Untargeted(action)

\* C25: with ORGANIZATION_ID set and a decodable message, every call the
\* handler makes to apply_service_restriction / apply_custom_constraint names
\* only parameters the operation declares, so the handler goes through every
\* target of every policy action and returns normally.
C25_PolicyCallsAccepted ==
    /\ (pc = "execute" /\ action.has_type /\ action.type = "restrict_services") =>
           RestrictArguments \subseteq ApplyServiceRestrictionParams
    /\ (pc = "execute" /\ action.has_type /\ action.type = "apply_constraint") =>
           ConstraintArguments \subseteq ApplyCustomConstraintParams
    /\ HandlerOver => pc = "handler_done" /\ action_idx = Len(actions) + 1

(***************************************************************************)
(* Claims about adjacent ranges (SpecRanges)                               *)
(***************************************************************************)
\* C26: of two rules with the adjacent ranges [a, b - 0.01] and [b, c], an
\* alert with a positive budget whose rounded thresholdPercent lies between a
\* and c matches exactly one, and so contributes the action of one rule: the
\* thresholdPercent is a whole number of tenths, none of which lies strictly
\* between b - 0.01 and b.
C26_AdjacentRangesPartition ==
    LET a == rules[1].conditions.threshold_percent.conds[1].value
        c == rules[2].conditions.threshold_percent.conds[2].value
    IN (/\ Len(matches) = 2
        /\ budget_data.budgetAmount > 0
        /\ a <= threshold_percent /\ threshold_percent <= c) =>
           /\ threshold_percent % 10 = 0
           /\ matches[1] # matches[2]
           /\ Len(actions) = 1

\* 2699 of 3000 is 89.966..., above the first range's 89.99 only once it is
\* rounded to 90.0: the second rule alone matches. 1799 of 2000 is 89.95,
\* halfway between 89.9 and 90.0.
C26_Witness ==
    /\ pc = "done"
    /\ \/ /\ budget_data.costAmount = 2699 /\ budget_data.budgetAmount = 3000
          /\ threshold_percent = 9000
          /\ rules[1].conditions.threshold_percent.conds[2].value = 8999
          /\ matches = <<FALSE, TRUE>>
       \/ /\ budget_data.costAmount = 1799 /\ budget_data.budgetAmount = 2000
          /\ threshold_percent = 8990
          /\ rules[1].conditions.threshold_percent.conds[2].value = 8999
          /\ matches = <<TRUE, FALSE>>

(***************************************************************************)
(* Claims about mistyped operators (SpecThreshold)                         *)
(***************************************************************************)
Mistyped(cond) == cond.has_operator /\ cond.operator \notin Operators
WellTyped(cond) == ~Mistyped(cond)

\* C27: a threshold condition whose operator is none of >=, >, ==, <, <=,
\* min, max constrains nothing and never raises: the rule matches as it would
\* with that condition taken out, so a rule whose only condition is mistyped
\* matches every alert.
C27_MistypedOperatorUnconstrained ==
    LET t == rules[1].conditions.threshold_percent
    IN (\E i \in 1..Len(t.conds) : Mistyped(t.conds[i])) =>
           /\ pc # "raised"
           /\ matches # <<>> =>
                  matches[1] = ~ThresholdLoopFails(SelectSeq(t.conds, WellTyped),
                                                   threshold_percent)
           /\ (matches # <<>> /\ \A i \in 1..Len(t.conds) : Mistyped(t.conds[i])) => matches[1]

\* An alert at 79 percent has matched a rule whose only condition is
\* {operator: "=>", value: 90}.
C27_Witness ==
    /\ pc = "done"
    /\ rules[1].conditions.threshold_percent = ThresholdDict(Cond(MistypedOperator, 9000))
    /\ threshold_percent = 7900
    /\ matches = <<TRUE>>

\* The (type, resource) pairs of the records appended so far.
RecordedExecutions ==
    [i \in 1..Len(executed_actions) |->
        <<executed_actions[i].type, executed_actions[i].resource_id>>]

\* C28: for restrict_services and apply_constraint (as for log_only) the
\* handler appends one executed_actions record per (action, target) pair,
\* whatever the engine call returns; an action of unknown type appends none
\* and calls no engine operation. So once the handler is over the records are
\* those of every pair of the list.
C28_OneRecordPerPair ==
    /\ (HandlerOver /\ ExplicitOnly(actions)) =>
           RecordedExecutions = PrecedingExecutions(actions, Len(actions) + 1)
    /\ (pc \in {"execute", "raised"} /\ action # <<>> /\ action.type \notin Executable) =>
           pc = "execute" /\ call = <<>>

(***************************************************************************)
(* Claims about upsert_policy under concurrent writers (SpecPolicy)        *)
(***************************************************************************)
CallsOf(method) == {i \in 1..Len(client_calls) : client_calls[i].method = method}
NotFoundAt(i) ==
    /\ client_calls[i].method \in {"get_policy", "update_policy"}
    /\ client_calls[i].outcome = "NotFound"

LeftWithoutTargets ==
    /\ pc = "next_action"
    /\ action_idx > 1
    /\ ~IsSendMail(actions[action_idx - 1])
    /\ targets = <<>>

\* C30: an action whose resolved target list is empty is skipped, with no
\* engine call and no record, and the loop goes on; an action with n resolved
\* targets has its engine operation called once per target, in resolved
\* order, so the handler never leaves it before its last target.
C30_EveryTargetCalled ==
    /\ pc = "execute" => target_idx \in 1..Len(targets)
    /\ LeftWithoutTargets =>
           /\ call = <<>>
           /\ \A i \in 1..Len(executed_actions) :
                  \E j \in 1..(action_idx - 2) : executed_actions[i].type = actions[j].type
    /\ (pc = "raised" /\ actions # <<>>) => target_idx > Len(targets)

====
